---- MODULE Spec2Model ----
(***************************************************************************)
(* Verification model of the Dispatch scheduling simulator.                *)
(*                                                                         *)
(*   SpecReplay     replay projection        (frontend/src/lib/replay.ts)  *)
(*   SpecFenwick    Fenwick prefix sums      (lib/dsa/segStreak.ts)        *)
(*   SpecSeg        SegStreak segment tree   (lib/dsa/segStreak.ts)        *)
(*   SpecAnalytics  TimelineAnalytics.sync   (unnamed/part_001)            *)
(*   SpecSched      scheduler tick           (unnamed/part_018)            *)
(*   SpecIo         tick with I/O bursts     (unnamed/part_018)            *)
(*   SpecPolicy     priority and RR ticks    (unnamed/part_018)            *)
(*   SpecWs         websocket session loop   (unnamed/part_017)            *)
(*   SpecPaging     page replacement         (lib/memory, unnamed/part_000)*)
(*   SpecPareto     Pareto front             (unnamed/part_002)            *)
(*   SpecEvents     event-log parsing        (components/diagram/events.ts)*)
(*   SpecPlayback   replay playback loop     (app/simulate/page.tsx)       *)
(*   SpecStore      replay store             (store/replayStore.ts)        *)
(*   SpecSocket     client websocket wrapper (lib/replay.ts createSimSocket)*)
(*   SpecDerive     process states of the shown state  (lib/sim/deriveProcessStates.ts) *)
(*   SpecMerge      segment-tree node merge  (lib/dsa/segStreak.ts)        *)
(*   SpecNormalize  robust normalization     (lib/recommend/normalize.ts)  *)
(*   SpecForm       add-process form         (dashboard/AddProcessModal)   *)
(*                                                                         *)
(* JavaScript arrays are 0-based; the sequences below are 1-based, so      *)
(* a[i] of the source is a[i + 1] here.                                    *)
(***************************************************************************)
EXTENDS Integers, Sequences, FiniteSets, TLC

VARIABLES
    liveState,      \* replay: the live snapshot received from the backend
    requestedT,     \* replay: requested time, in units of 1/Scale tick
    replayView,     \* replay: <<>> or <<the view getReplayViewState returned>>
    fw,             \* Fenwick instance: n, capacity, tree, data
    fwElems,        \* the element values the Fenwick instance stands for
    seg,            \* SegStreak instance: n, size, tree, data
    segBits,        \* the bit window the SegStreak instance stands for
    ta,             \* TimelineAnalytics instance
    pgInput,        \* paging: framesCount and refs handed to the run functions
    pgResult,       \* paging: <<>> or <<algorithm, the MemResult it returned>>
    prInput,        \* comparator: the rows handed to paretoFront
    prResult,       \* comparator: <<>> or <<the front paretoFront returned>>
    evLog,          \* diagram: the transitions the backend wrote to the event log
    evResult,       \* diagram: <<>> or <<fromIndex, the parsed events, the paths begun>>
    form,           \* add-process form: pid, bursts, formError, number of submit calls
    submitted,      \* add-process form: <<>> or <<the burst list last handed to onSubmitProcess>>
    nmInput,        \* scoring: the cohort rows of one metric and the direction
    nmResult,       \* scoring: <<>> or <<the values robustNormalizeMetric returned>>
    mgInput,        \* merge: three bit windows whose nodes are merged
    mgResult,       \* merge: <<>> or <<the merged nodes>>
    dvLive,         \* derive: the live snapshot of a run with a process on the CPU
    dvView,         \* derive: <<>> or <<the state shown and the process states derived from it>>
    sk,             \* socket: ws, status and error of one createSimSocket instance
    skSockets,      \* socket: the WebSockets created so far, oldest first
    skSent,         \* socket: the sockets that transmitted a payload, in order
    rs,             \* replay store: mode, replayT, replayMax, isPlaying, playbackRate
    pb,             \* playback: the page refs of replay playback and what its effect last saw
    wsSession,      \* session: the state the session functions read and write
    wsConns,        \* session: per websocket, the position of its ws_state coroutine
    sched           \* scheduler state

vars == <<liveState, requestedT, replayView, fw, fwElems, seg, segBits, ta, sched,
          wsSession, wsConns, pgInput, pgResult, prInput, prResult,
          evLog, evResult,
          form, submitted,
          nmInput, nmResult,
          mgInput, mgResult,
          dvLive, dvView,
          sk, skSockets, skSent,
          rs,
          pb>>

replayVars == <<liveState, requestedT, replayView>>
fenwickVars == <<fw, fwElems>>
segVars == <<seg, segBits>>
taVars == <<ta>>
schedVars == <<sched>>
wsVars == <<wsSession, wsConns>>
pgVars == <<pgInput, pgResult>>
prVars == <<prInput, prResult>>
evVars == <<evLog, evResult>>
pbVars == <<pb>>
rsVars == <<rs>>
skVars == <<sk, skSockets, skSent>>
dvVars == <<dvLive, dvView>>
mgVars == <<mgInput, mgResult>>
nmVars == <<nmInput, nmResult>>
fmVars == <<form, submitted>>

(***************************************************************************)
(* Generic helpers                                                         *)
(***************************************************************************)
Max2(a, b) == IF a >= b THEN a ELSE b
Min2(a, b) == IF a <= b THEN a ELSE b

\* Array.prototype.slice(-k): the last k elements
SliceLast(s, k) == IF Len(s) <= k THEN s ELSE SubSeq(s, Len(s) - k + 1, Len(s))

InSeq(q, x) == \E i \in DOMAIN q : q[i] = x

\* all sequences over S of length 0..n
SeqsUpTo(S, n) == UNION {[1..k -> S] : k \in 0..n}

(***************************************************************************)
(* Replay projection: frontend/src/lib/replay.ts                           *)
(***************************************************************************)
MaxTime == 4            \* ticks recorded in a live snapshot
MaxEventsPerTick == 8   \* most event-log lines written in one tick
Scale == 2              \* requested times are multiples of 1/Scale tick
EVENT_LOG_TAIL == 20    \* slice(-20)

Null == -1

\* What one tick appends to the three timelines.
TickShapes ==
    { [cpu |-> "P1",   io |-> "IDLE", mem |-> "HIT:P1"],
      [cpu |-> "P2",   io |-> "P1",   mem |-> "FAULT:P2"],
      [cpu |-> "IDLE", io |-> "P1",   mem |-> "IDLE"] }

\* An event-log line: `timed` says whether the text carries "t=<n>", t is that n.
LogLine(timed, t, id) == [timed |-> timed, t |-> t, id |-> id]

\* The line getReplayViewState prepends ("Replay note: queue snapshots ...").
QueueNote == LogLine(FALSE, 0, 0)

\* k lines per tick for ticks 0..T-1, in order; flavour "timed": every line carries
\* t=<n>; "untimed": none does; "mixed": only the first line of the log does not.
EventLogOf(T, k, flavour) ==
    [i \in 1..(T * k) |->
        LogLine(CASE flavour = "timed" -> TRUE
                  [] flavour = "untimed" -> FALSE
                  [] OTHER -> i > 1,
                (i - 1) \div k, i)]

Snapshot(shapes, k, flavour, memMode) ==
    LET T == Len(shapes)
        memTl == [i \in 1..T |-> shapes[i].mem]
        steps == SelectSeq([i \in 1..T |-> [t |-> i - 1, tok |-> shapes[i].mem]],
                           LAMBDA s : s.tok # "IDLE")
    IN [ time |-> T,
         running |-> IF T = 0 THEN "IDLE" ELSE shapes[T].cpu,
         io_active |-> IF T = 0 THEN "IDLE" ELSE shapes[T].io,
         gantt |-> [i \in 1..T |-> shapes[i].cpu],
         io_gantt |-> [i \in 1..T |-> shapes[i].io],
         mem_gantt |-> IF memMode = "CPU_ONLY" THEN <<>> ELSE memTl,
         memory |-> [ mem_gantt |-> IF memMode = "FULL" THEN memTl ELSE <<>>,
                      recent_steps |-> IF memMode = "CPU_ONLY" THEN <<>> ELSE steps ],
         event_log |-> EventLogOf(T, k, flavour) ]

\* <<event-log flavour, memory mode, event-log lines per tick>>.  Memory mode
\* CPU_ONLY has no memory timeline; FULL has it in both places; FULL_TOP_ONLY has
\* it in state.mem_gantt only.
SnapshotKinds ==
    { <<"timed", "CPU_ONLY", 0>>, <<"timed", "CPU_ONLY", MaxEventsPerTick>>,
      <<"timed", "FULL", 1>>, <<"timed", "FULL", MaxEventsPerTick>>,
      <<"timed", "FULL_TOP_ONLY", 1>>,
      <<"untimed", "FULL", 1>>, <<"mixed", "FULL", MaxEventsPerTick>> }

Snapshots ==
    { Snapshot(sh, kind[3], kind[1], kind[2]) :
        sh \in SeqsUpTo(TickShapes, MaxTime), kind \in SnapshotKinds }

NoSnapshot == Snapshot(<<>>, 0, "timed", "CPU_ONLY")

RequestedTs == (-Scale)..(Scale * (MaxTime + 1) + 1)

\* Math.floor of a time given in units of 1/Scale
Floor(x) == x \div Scale

\* state.event_log entries are strings; match(EVENT_TIME_REGEX) + parseInt
parseEventTime(entry) == IF entry.timed THEN entry.t ELSE Null

getReplayMax(state) ==
    Max2(Max2(state.time, Len(state.gantt) - 1),
         Max2(Max2(Len(state.io_gantt) - 1, Len(state.mem_gantt) - 1), 0))

\* getReplayEventLog with a strict comparison
getReplayEventLogStrict(state, t) ==
    LET parsed == SelectSeq(state.event_log, LAMBDA e : parseEventTime(e) # Null)
    IN IF Len(parsed) > 0
       THEN SliceLast(SelectSeq(parsed, LAMBDA e : parseEventTime(e) < t), EVENT_LOG_TAIL)
       ELSE SliceLast(state.event_log, EVENT_LOG_TAIL)

getReplayEventLog(state, t) ==
    LET parsed == SelectSeq(state.event_log, LAMBDA e : parseEventTime(e) # Null)
    IN IF Len(parsed) > 0
       THEN SliceLast(SelectSeq(parsed, LAMBDA e : parseEventTime(e) <= t), EVENT_LOG_TAIL)
       ELSE SliceLast(state.event_log, EVENT_LOG_TAIL)

\* line 30 rounding the requested time up
ReplayTickCeil(state, reqT) ==
    Max2(0, Min2(Floor(reqT + Scale - 1), getReplayMax(state)))

\* Math.max(0, Math.min(Math.floor(requestedT), replayMax))
ReplayTick(state, reqT) ==
    Max2(0, Min2(Floor(reqT), getReplayMax(state)))

\* arr[t] ?? "IDLE"
At(arr, t) == IF t + 1 \in DOMAIN arr THEN arr[t + 1] ELSE "IDLE"

getReplayViewState(state, reqT) ==
    LET t == ReplayTick(state, reqT)
        queueNote == IF t = state.time THEN <<>> ELSE <<QueueNote>>
    IN [ state EXCEPT
           !.time = t,
           !.running = At(state.gantt, t),
           !.io_active = At(state.io_gantt, t),
           !.mem_gantt = state.mem_gantt,
           !.memory = [ mem_gantt |-> IF Len(state.memory.mem_gantt) > 0
                                      THEN state.memory.mem_gantt
                                      ELSE state.mem_gantt,
                        recent_steps |-> SelectSeq(state.memory.recent_steps,
                                                   LAMBDA s : s.t <= t) ],
           !.event_log = queueNote \o getReplayEventLog(state, t) ]

\* the page asks for the view of the live snapshot at a requested time
ReplayRequest ==
    \E reqT \in RequestedTs :
        /\ requestedT' = reqT
        /\ replayView' = <<getReplayViewState(liveState, reqT)>>
        /\ UNCHANGED liveState

(***************************************************************************)
(* Fenwick tree: frontend/src/lib/dsa/segStreak.ts, class Fenwick          *)
(***************************************************************************)
MaxFwInit == 3      \* largest n passed to the constructor
MaxFwLen == 4       \* appends stop at this size
MaxFwVal == 2       \* element values stay in -1..MaxFwVal

FwVals == (-1)..MaxFwVal
FwIndexes == -1..MaxFwLen

\* idx & -idx
RECURSIVE LowBit(_)
LowBit(i) == IF i % 2 = 1 THEN 1 ELSE 2 * LowBit(i \div 2)

\* while (bitIndex <= capacity) { tree[bitIndex] += change; bitIndex += bitIndex & -bitIndex }
RECURSIVE FwPropagate(_, _, _, _)
FwPropagate(tree, capacity, bitIndex, change) ==
    IF bitIndex > capacity THEN tree
    ELSE FwPropagate([tree EXCEPT ![bitIndex] = @ + change], capacity,
                     bitIndex + LowBit(bitIndex), change)

FenwickNew(n) ==
    LET size == Max2(0, n)
        capacity == Max2(1, size)
    IN [ n |-> size, capacity |-> capacity,
         tree |-> [i \in 1..capacity |-> 0],
         data |-> [i \in 1..capacity |-> 0] ]

\* a growth that keeps the old tree cells and pads with zeros
FenwickRebuildPad(f, newCapacity) ==
    LET nextCapacity == Max2(1, newCapacity)
    IN [ f EXCEPT !.capacity = nextCapacity,
                  !.tree = [i \in 1..nextCapacity |-> IF i <= f.capacity THEN f.tree[i] ELSE 0],
                  !.data = [i \in 1..nextCapacity |-> IF i <= f.capacity THEN f.data[i] ELSE 0] ]

FenwickRebuild(f, newCapacity) ==
    LET nextCapacity == Max2(1, newCapacity)
        zero == [i \in 1..nextCapacity |-> 0]
        \* the tree after the loop has handled elements 0..k-1
        Filled[k \in 0..f.n] ==
            IF k = 0 THEN zero
            ELSE FwPropagate(Filled[k - 1], nextCapacity, k, f.data[k])
    IN [ f EXCEPT !.capacity = nextCapacity,
                  !.tree = Filled[f.n],
                  !.data = [i \in 1..nextCapacity |-> IF i <= f.n THEN f.data[i] ELSE 0] ]

\* let next = capacity; while (next < targetSize) next *= 2
RECURSIVE DoubleUntil(_, _)
DoubleUntil(next, targetSize) ==
    IF next < targetSize THEN DoubleUntil(next * 2, targetSize) ELSE next

FenwickEnsureCapacity(f, targetSize) ==
    IF targetSize <= f.capacity THEN f
    ELSE FenwickRebuild(f, DoubleUntil(f.capacity, targetSize))

FenwickAdd(f, idx, delta) ==
    IF idx < 0 \/ idx >= f.n THEN f
    ELSE IF delta = 0 THEN f
    ELSE [ f EXCEPT !.data[idx + 1] = @ + delta,
                    !.tree = FwPropagate(f.tree, f.capacity, idx + 1, delta) ]

FenwickSet(f, idx, value) ==
    IF idx < 0 \/ idx >= f.n THEN f
    ELSE FenwickAdd(f, idx, value - f.data[idx + 1])

FenwickAppend(f, value) ==
    LET g == FenwickEnsureCapacity(f, f.n + 1)
        h == [g EXCEPT !.n = @ + 1, !.data[g.n + 1] = 0]
    IN FenwickAdd(h, h.n - 1, value)

\* while (bitIndex > 0) { total += tree[bitIndex]; bitIndex -= bitIndex & -bitIndex }
RECURSIVE FwCollect(_, _)
FwCollect(tree, bitIndex) ==
    IF bitIndex <= 0 THEN 0
    ELSE tree[bitIndex] + FwCollect(tree, bitIndex - LowBit(bitIndex))

FenwickSum(f, i) ==
    IF f.n = 0 THEN 0
    ELSE LET idx == Min2(i, f.n - 1)
         IN IF idx < 0 THEN 0 ELSE FwCollect(f.tree, idx + 1)

FenwickRangeSum(f, l, r) ==
    IF f.n = 0 THEN 0
    ELSE LET left == Max2(0, Min2(l, f.n - 1))
             right == Max2(0, Min2(r, f.n - 1))
         IN IF left > right THEN 0
            ELSE FenwickSum(f, right) - FenwickSum(f, left - 1)

FwAppend ==
    \E v \in FwVals :
        /\ fw.n < MaxFwLen
        /\ fw' = FenwickAppend(fw, v)
        /\ fwElems' = Append(fwElems, v)

FwAdd ==
    \E i \in FwIndexes, d \in {-1, 0, 1} :
        /\ i \in 0..(Len(fwElems) - 1) => fwElems[i + 1] + d \in FwVals
        /\ fw' = FenwickAdd(fw, i, d)
        /\ fwElems' = IF i \in 0..(Len(fwElems) - 1)
                      THEN [fwElems EXCEPT ![i + 1] = @ + d] ELSE fwElems

FwSet ==
    \E i \in FwIndexes, v \in FwVals :
        /\ fw' = FenwickSet(fw, i, v)
        /\ fwElems' = IF i \in 0..(Len(fwElems) - 1)
                      THEN [fwElems EXCEPT ![i + 1] = v] ELSE fwElems

(***************************************************************************)
(* SegStreak segment tree: frontend/src/lib/dsa/segStreak.ts               *)
(***************************************************************************)
MaxSegInit == 3     \* longest array passed to the constructor
MaxSegLen == 6      \* appends stop at this length
MaxSegVal == 2      \* values handed in are 0..MaxSegVal (anything > 0 is bit 1)

SegVals == 0..MaxSegVal
SegIndexes == -1..MaxSegLen

EMPTY_NODE ==
    [len |-> 0, pref1 |-> 0, suf1 |-> 0, best1 |-> 0, pref0 |-> 0, suf0 |-> 0, best0 |-> 0]

ToBit(value) == IF value > 0 THEN 1 ELSE 0

makeLeaf(value) ==
    LET bit == ToBit(value)
    IN [ len |-> 1, pref1 |-> bit, suf1 |-> bit, best1 |-> bit,
         pref0 |-> 1 - bit, suf0 |-> 1 - bit, best0 |-> 1 - bit ]

\* a merge that forgets the run crossing the boundary
mergeSegNodesNoCross(left, right) ==
    IF left.len = 0 THEN right
    ELSE IF right.len = 0 THEN left
    ELSE [ len |-> left.len + right.len,
           pref1 |-> IF left.pref1 = left.len THEN left.len + right.pref1 ELSE left.pref1,
           suf1 |-> IF right.suf1 = right.len THEN right.len + left.suf1 ELSE right.suf1,
           best1 |-> Max2(left.best1, right.best1),
           pref0 |-> IF left.pref0 = left.len THEN left.len + right.pref0 ELSE left.pref0,
           suf0 |-> IF right.suf0 = right.len THEN right.len + left.suf0 ELSE right.suf0,
           best0 |-> Max2(left.best0, right.best0) ]

mergeSegNodes(left, right) ==
    IF left.len = 0 THEN right
    ELSE IF right.len = 0 THEN left
    ELSE [ len |-> left.len + right.len,
           pref1 |-> IF left.pref1 = left.len THEN left.len + right.pref1 ELSE left.pref1,
           suf1 |-> IF right.suf1 = right.len THEN right.len + left.suf1 ELSE right.suf1,
           best1 |-> Max2(Max2(left.best1, right.best1), left.suf1 + right.pref1),
           pref0 |-> IF left.pref0 = left.len THEN left.len + right.pref0 ELSE left.pref0,
           suf0 |-> IF right.suf0 = right.len THEN right.len + left.suf0 ELSE right.suf0,
           best0 |-> Max2(Max2(left.best0, right.best0), left.suf0 + right.pref0) ]

RECURSIVE nextPowerOfTwoFrom(_, _)
nextPowerOfTwoFrom(next, value) ==
    IF next < value THEN nextPowerOfTwoFrom(next * 2, value) ELSE next

nextPowerOfTwo(value) == nextPowerOfTwoFrom(1, value)

\* build(): leaves at size..size+n-1, then parents from size-1 down to 1
SegBuild(data, n, size) ==
    LET T[i \in 1..(2 * size - 1)] ==
            IF i >= size
            THEN IF i - size < n THEN makeLeaf(data[i - size + 1]) ELSE EMPTY_NODE
            ELSE mergeSegNodes(T[2 * i], T[2 * i + 1])
    IN [i \in 1..(2 * size - 1) |-> T[i]]

SegNew(values) ==
    LET data == [i \in 1..Len(values) |-> ToBit(values[i])]
        n == Len(data)
        size == nextPowerOfTwo(Max2(1, n))
    IN [n |-> n, size |-> size, tree |-> SegBuild(data, n, size), data |-> data]

SegEnsureCapacity(s, minSize) ==
    IF minSize <= s.size THEN s
    ELSE LET size == nextPowerOfTwo(minSize)
         IN [s EXCEPT !.size = size, !.tree = SegBuild(s.data, s.n, size)]

\* while (treeIndex >= 1) { tree[treeIndex] = merge(children); treeIndex >>= 1 }
RECURSIVE SegPullUp(_, _)
SegPullUp(tree, treeIndex) ==
    IF treeIndex < 1 THEN tree
    ELSE SegPullUp([tree EXCEPT ![treeIndex] =
                        mergeSegNodes(tree[2 * treeIndex], tree[2 * treeIndex + 1])],
                   treeIndex \div 2)

SegUpdate(s, index, value) ==
    IF index < 0 \/ index >= s.n THEN s
    ELSE LET bit == ToBit(value)
         IN IF s.data[index + 1] = bit THEN s
            ELSE LET leafAt == s.size + index
                     withLeaf == [s.tree EXCEPT ![leafAt] = makeLeaf(bit)]
                 IN [ s EXCEPT !.data[index + 1] = bit,
                               !.tree = SegPullUp(withLeaf, leafAt \div 2) ]

SegAppend(s, value) ==
    LET g == SegEnsureCapacity(s, s.n + 1)
        h == [g EXCEPT !.data = Append(g.data, -1), !.n = @ + 1]
    IN SegUpdate(h, h.n - 1, ToBit(value))

\* the while (queryLeft <= queryRight) loop of query()
RECURSIVE SegQueryLoop(_, _, _, _, _)
SegQueryLoop(tree, queryLeft, queryRight, leftResult, rightResult) ==
    IF queryLeft > queryRight THEN mergeSegNodes(leftResult, rightResult)
    ELSE LET takeL == queryLeft % 2 = 1
             takeR == queryRight % 2 = 0
             lr == IF takeL THEN mergeSegNodes(leftResult, tree[queryLeft]) ELSE leftResult
             rr == IF takeR THEN mergeSegNodes(tree[queryRight], rightResult) ELSE rightResult
             ql == IF takeL THEN queryLeft + 1 ELSE queryLeft
             qr == IF takeR THEN queryRight - 1 ELSE queryRight
         IN SegQueryLoop(tree, ql \div 2, qr \div 2, lr, rr)

SegQuery(s, l, r) ==
    IF s.n = 0 THEN EMPTY_NODE
    ELSE LET left == Max2(0, Min2(l, s.n - 1))
             right == Max2(0, Min2(r, s.n - 1))
         IN IF left > right THEN EMPTY_NODE
            ELSE SegQueryLoop(s.tree, left + s.size, right + s.size, EMPTY_NODE, EMPTY_NODE)

SegAppendStep ==
    \E v \in SegVals :
        /\ seg.n < MaxSegLen
        /\ seg' = SegAppend(seg, v)
        /\ segBits' = Append(segBits, ToBit(v))

SegUpdateStep ==
    \E pos \in SegIndexes, v \in SegVals :
        /\ seg' = SegUpdate(seg, pos, v)
        /\ segBits' = IF pos \in 0..(Len(segBits) - 1)
                      THEN [segBits EXCEPT ![pos + 1] = ToBit(v)] ELSE segBits

(***************************************************************************)
(* TimelineAnalytics: unnamed/part_001                                     *)
(***************************************************************************)
MaxGanttLen == 4    \* longest CPU timeline handed to sync

GanttTokens == {"IDLE", "P1", "P2"}
Gantts == SeqsUpTo(GanttTokens, MaxGanttLen)
RangeEnds == -1..(MaxGanttLen + 1)

\* pid && pid !== "IDLE" ? 1 : 0   (pids are non-empty strings)
toBusyBit(pid) == IF pid # "" /\ pid # "IDLE" THEN 1 ELSE 0

clampTick(value, maxTick) == Max2(0, Min2(value, Max2(0, maxTick)))

\* rebuild(gantt): fresh structures, then one add per tick
TaRebuild(gantt) ==
    LET bits == [i \in 1..Len(gantt) |-> toBusyBit(gantt[i])]
        Busy[k \in 0..Len(bits)] ==
            IF k = 0 THEN FenwickNew(Len(bits))
            ELSE FenwickAdd(Busy[k - 1], k - 1, bits[k])
        Idle[k \in 0..Len(bits)] ==
            IF k = 0 THEN FenwickNew(Len(bits))
            ELSE FenwickAdd(Idle[k - 1], k - 1, 1 - bits[k])
    IN [ gantt |-> gantt,
         fenwickBusy |-> Busy[Len(bits)],
         fenwickIdle |-> Idle[Len(bits)],
         segStreakBusyIdle |-> SegNew(bits) ]

\* an updateTick that leaves the streak tree alone
TaUpdateTickNoSeg(a, index, nextPid) ==
    LET previousBit == toBusyBit(a.gantt[index + 1])
        nextBit == toBusyBit(nextPid)
    IN IF previousBit = nextBit THEN a
       ELSE [ a EXCEPT
                !.fenwickBusy = FenwickAdd(@, index, nextBit - previousBit),
                !.fenwickIdle = FenwickAdd(@, index, previousBit - nextBit) ]

TaUpdateTick(a, index, nextPid) ==
    LET previousBit == toBusyBit(a.gantt[index + 1])
        nextBit == toBusyBit(nextPid)
    IN IF previousBit = nextBit THEN a
       ELSE [ a EXCEPT
                !.fenwickBusy = FenwickAdd(@, index, nextBit - previousBit),
                !.fenwickIdle = FenwickAdd(@, index, previousBit - nextBit),
                !.segStreakBusyIdle = SegUpdate(@, index, nextBit) ]

TaAppendTick(a, pid) ==
    LET bit == toBusyBit(pid)
    IN [ a EXCEPT
           !.fenwickBusy = FenwickAppend(@, bit),
           !.fenwickIdle = FenwickAppend(@, 1 - bit),
           !.segStreakBusyIdle = SegAppend(@, bit) ]

TaSync(a, nextGantt) ==
    IF Len(nextGantt) < Len(a.gantt) THEN TaRebuild(nextGantt)
    ELSE IF Len(nextGantt) = Len(a.gantt)
    THEN LET Upd[k \in 0..Len(nextGantt)] ==
                 IF k = 0 THEN a
                 ELSE IF nextGantt[k] = a.gantt[k] THEN Upd[k - 1]
                 ELSE TaUpdateTick(Upd[k - 1], k - 1, nextGantt[k])
         IN [Upd[Len(nextGantt)] EXCEPT !.gantt = nextGantt]
    ELSE IF \E k \in 1..Len(a.gantt) : nextGantt[k] # a.gantt[k]
    THEN TaRebuild(nextGantt)
    ELSE LET App[k \in Len(a.gantt)..Len(nextGantt)] ==
                 IF k = Len(a.gantt) THEN a
                 ELSE TaAppendTick(App[k - 1], nextGantt[k])
         IN [App[Len(nextGantt)] EXCEPT !.gantt = nextGantt]

EMPTY_STATS ==
    [ busyTicks |-> 0, idleTicks |-> 0, longestBusyStreak |-> 0,
      longestIdleStreak |-> 0, totalTicks |-> 0 ]

\* utilPct = busyTicks / totalTicks * 100 is a function of the two fields kept here
getRangeStats(a, l, r) ==
    IF Len(a.gantt) = 0 THEN EMPTY_STATS
    ELSE LET left == clampTick(Min2(l, r), Len(a.gantt) - 1)
             right == clampTick(Max2(l, r), Len(a.gantt) - 1)
         IN IF left > right THEN EMPTY_STATS
            ELSE LET totalTicks == right - left + 1
                     busyTicks == FenwickRangeSum(a.fenwickBusy, left, right)
                     streakNode == SegQuery(a.segStreakBusyIdle, left, right)
                 IN [ busyTicks |-> busyTicks,
                      idleTicks |-> totalTicks - busyTicks,
                      longestBusyStreak |-> streakNode.best1,
                      longestIdleStreak |-> streakNode.best0,
                      totalTicks |-> totalTicks ]

buildTimelineAnalytics(gantt) == TaRebuild(gantt)

Sync == \E nextGantt \in Gantts : ta' = TaSync(ta, nextGantt)

(***************************************************************************)
(* Scheduler tick: unnamed/part_018 (excerpts of backend/app/engine/       *)
(* scheduler.py).  The helpers the excerpts call but do not show           *)
(* (enqueue_ready, handle_cpu_completion, the FCFS pick, add_process, the  *)
(* I/O queue hand-over) follow the written specification.                  *)
(***************************************************************************)
MaxTicks == 10      \* ticks stop at this time
MaxArrival == 2     \* arrival times are 0..MaxArrival
MaxQuantum == 2     \* RR quanta are 1..MaxQuantum
DefaultQuantum == 2
DefaultPriority == 1

Pids == {"P1", "P2", "P3"}
None == "NONE"

\* Python orders pids as strings: "P1" < "P2" < "P3"
PidRank(pid) == CASE pid = "P1" -> 1 [] pid = "P2" -> 2 [] OTHER -> 3

BurstShapes == { <<1>>, <<3>>, <<5>>, <<1, 3, 1>> }

Process(arrival, priority, bursts) ==
    [ arrival_time |-> arrival, priority |-> priority, bursts |-> bursts, burst_index |-> 0,
      remaining_in_current_burst |-> bursts[1], state |-> "NEW",
      start_time |-> Null, completion_time |-> Null ]

\* self.log(f"t={t}: {pid} {from} -> {to} ({reason})")
Transition(t, pid, from, to, reason) ==
    [t |-> t, pid |-> pid, from |-> from, to |-> to, reason |-> reason]

log(s, t, pid, from, to, reason) ==
    [s EXCEPT !.event_log = Append(@, Transition(t, pid, from, to, reason))]

\* algorithm is "FCFS", "RR", "PRIORITY_NP" or "PRIORITY_P" (AlgorithmMode)
SchedulerNew(algorithm, quantum) ==
    [ algorithm |-> algorithm, quantum |-> quantum, quantum_left |-> quantum,
      time |-> 0, procs |-> <<>>, pending_arrivals |-> <<>>, ready_queue |-> <<>>,
      priority_heap |-> <<>>,
      current |-> None, io_active |-> None, io_remaining |-> 0, io_queue |-> <<>>,
      gantt |-> <<>>, io_gantt |-> <<>>, event_log |-> <<>> ]

IsPriority(s) == s.algorithm \in {"PRIORITY_NP", "PRIORITY_P"}

\* (arrival_time, pid) ascending
ArrivesBefore(s, p, q) ==
    \/ s.procs[p].arrival_time < s.procs[q].arrival_time
    \/ /\ s.procs[p].arrival_time = s.procs[q].arrival_time
       /\ PidRank(p) < PidRank(q)

\* add_process: pending arrivals are kept in (arrival_time, pid) order
add_process(s, pid, arrival, priority, bursts) ==
    LET withProc == [s EXCEPT !.procs = [p \in DOMAIN s.procs \cup {pid} |->
                                IF p = pid THEN Process(arrival, priority, bursts)
                                ELSE s.procs[p]]]
        before == SelectSeq(s.pending_arrivals, LAMBDA q : ArrivesBefore(withProc, q, pid))
        after == SelectSeq(s.pending_arrivals, LAMBDA q : ~ArrivesBefore(withProc, q, pid))
    IN [withProc EXCEPT !.pending_arrivals = before \o <<pid>> \o after]

\* heapq.heappush(self.priority_heap, (priority, arrival_time, pid, proc)); the
\* heap is kept as the sequence of its entries' pids, the entry's key being
\* HeapKeyBefore
push_ready_priority(s, pid) == [s EXCEPT !.priority_heap = Append(@, pid)]

\* the ready structure of the policy: the priority heap, or the FIFO
\* (self.ready_queue.append(proc))
enqueue_ready(s, pid) ==
    IF IsPriority(s) THEN push_ready_priority(s, pid)
    ELSE [s EXCEPT !.ready_queue = Append(@, pid)]

\* lines 5-8, one arrival
AdmitOne(s, pid) ==
    log(enqueue_ready([s EXCEPT !.procs[pid].state = "READY"], pid),
        s.time, pid, "NEW", "READY", "")

Reverse(q) == [i \in 1..Len(q) |-> q[Len(q) + 1 - i]]

\* phase A walking the pending list from its tail
AdmitArrivalsFromTail(s) ==
    LET due == Reverse(SelectSeq(s.pending_arrivals,
                                 LAMBDA p : s.procs[p].arrival_time = s.time))
        rest == SelectSeq(s.pending_arrivals, LAMBDA p : s.procs[p].arrival_time # s.time)
        Admit[k \in 0..Len(due)] ==
            IF k = 0 THEN [s EXCEPT !.pending_arrivals = rest]
            ELSE AdmitOne(Admit[k - 1], due[k])
    IN Admit[Len(due)]

\* A) admit arrivals for this tick
AdmitArrivals(s) ==
    LET due == SelectSeq(s.pending_arrivals, LAMBDA p : s.procs[p].arrival_time = s.time)
        rest == SelectSeq(s.pending_arrivals, LAMBDA p : s.procs[p].arrival_time # s.time)
        Admit[k \in 0..Len(due)] ==
            IF k = 0 THEN [s EXCEPT !.pending_arrivals = rest]
            ELSE AdmitOne(Admit[k - 1], due[k])
    IN Admit[Len(due)]

\* the served process moves on to its next CPU burst
io_next_burst(s, pid) ==
    LET idx == s.procs[pid].burst_index + 1
    IN [s EXCEPT !.procs[pid].burst_index = idx,
                 !.procs[pid].remaining_in_current_burst = s.procs[pid].bursts[idx + 1]]

\* a free device takes the head of the I/O waiting list
io_promote(s) ==
    IF s.io_active = None /\ s.io_queue # <<>>
    THEN LET pid == Head(s.io_queue)
         IN [s EXCEPT !.io_active = pid,
                      !.io_queue = Tail(@),
                      !.io_remaining = s.procs[pid].remaining_in_current_burst]
    ELSE s

\* phase B releasing the process one tick early
AdvanceIOEarly(s) ==
    IF s.io_active = None THEN s
    ELSE LET dec == [s EXCEPT !.io_remaining = @ - 1]
         IN IF dec.io_remaining <= 1
            THEN LET pid == dec.io_active
                     freed == [dec EXCEPT !.io_active = None, !.procs[pid].state = "READY"]
                     back == log(enqueue_ready(io_next_burst(freed, pid), pid),
                                 s.time, pid, "WAITING_IO", "READY", "")
                 IN io_promote(back)
            ELSE dec

\* B) advance I/O device
AdvanceIO(s) ==
    IF s.io_active = None THEN s
    ELSE LET dec == [s EXCEPT !.io_remaining = @ - 1]
         IN IF dec.io_remaining <= 0
            THEN LET pid == dec.io_active
                     freed == [dec EXCEPT !.io_active = None, !.procs[pid].state = "READY"]
                     back == log(enqueue_ready(io_next_burst(freed, pid), pid),
                                 s.time, pid, "WAITING_IO", "READY", "")
                 IN io_promote(back)
            ELSE dec

\* schedule_rr: pop front, run for quantum
schedule_rr(s) ==
    IF s.ready_queue = <<>> THEN [sched |-> s, proc |-> None]
    ELSE LET pid == Head(s.ready_queue)
             popped == [s EXCEPT !.ready_queue = Tail(@), !.quantum_left = s.quantum]
             p == popped.procs[pid]
         IN [ sched |-> IF p.remaining_in_current_burst <= 0
                        THEN [popped EXCEPT !.procs[pid].remaining_in_current_burst =
                                                p.bursts[p.burst_index + 1]]
                        ELSE popped,
              proc |-> pid ]

\* FCFS: head of the FIFO
schedule_fcfs(s) ==
    IF s.ready_queue = <<>> THEN [sched |-> s, proc |-> None]
    ELSE LET pid == Head(s.ready_queue)
             popped == [s EXCEPT !.ready_queue = Tail(@)]
             p == popped.procs[pid]
         IN [ sched |-> IF p.remaining_in_current_burst <= 0
                        THEN [popped EXCEPT !.procs[pid].remaining_in_current_burst =
                                                p.bursts[p.burst_index + 1]]
                        ELSE popped,
              proc |-> pid ]

\* a heap key that compares the arrival time before the priority
HeapKeyArrivalFirst(s, p, q) ==
    \/ s.procs[p].arrival_time < s.procs[q].arrival_time
    \/ /\ s.procs[p].arrival_time = s.procs[q].arrival_time
       /\ \/ s.procs[p].priority < s.procs[q].priority
          \/ /\ s.procs[p].priority = s.procs[q].priority
             /\ PidRank(p) < PidRank(q)

\* tuple order of the heap entries (priority, arrival_time, pid, proc)
HeapKeyBefore(s, p, q) ==
    \/ s.procs[p].priority < s.procs[q].priority
    \/ /\ s.procs[p].priority = s.procs[q].priority
       /\ \/ s.procs[p].arrival_time < s.procs[q].arrival_time
          \/ /\ s.procs[p].arrival_time = s.procs[q].arrival_time
             /\ PidRank(p) < PidRank(q)

\* position of the entry heapq.heappop returns
HeapMinIndex(s) ==
    CHOOSE i \in DOMAIN s.priority_heap :
        \A j \in DOMAIN s.priority_heap \ {i} :
            \/ HeapKeyBefore(s, s.priority_heap[i], s.priority_heap[j])
            \/ s.priority_heap[i] = s.priority_heap[j] /\ i < j

RemoveAt(q, i) == SubSeq(q, 1, i - 1) \o SubSeq(q, i + 1, Len(q))

\* schedule_priority reloading the burst length at every dispatch
RECURSIVE schedule_priorityReload(_)
schedule_priorityReload(s) ==
    IF s.priority_heap = <<>> THEN [sched |-> s, proc |-> None]
    ELSE LET i == HeapMinIndex(s)
             pid == s.priority_heap[i]
             popped == [s EXCEPT !.priority_heap = RemoveAt(@, i)]
             p == popped.procs[pid]
         IN IF p.state # "READY" THEN schedule_priorityReload(popped)
            ELSE [ sched |-> [popped EXCEPT !.procs[pid].remaining_in_current_burst =
                                                p.bursts[p.burst_index + 1]],
                   proc |-> pid ]

\* schedule_priority: pop until a READY process comes out
RECURSIVE schedule_priority(_)
schedule_priority(s) ==
    IF s.priority_heap = <<>> THEN [sched |-> s, proc |-> None]
    ELSE LET i == HeapMinIndex(s)
             pid == s.priority_heap[i]
             popped == [s EXCEPT !.priority_heap = RemoveAt(@, i)]
             p == popped.procs[pid]
         IN IF p.state # "READY" THEN schedule_priority(popped)
            ELSE [ sched |-> IF p.remaining_in_current_burst <= 0
                             THEN [popped EXCEPT !.procs[pid].remaining_in_current_burst =
                                                     p.bursts[p.burst_index + 1]]
                             ELSE popped,
                   proc |-> pid ]

pick_next_process(s) ==
    IF s.algorithm = "RR" THEN schedule_rr(s)
    ELSE IF IsPriority(s) THEN schedule_priority(s)
    ELSE schedule_fcfs(s)

\* the READY processes the heap holds
HeapReady(s) ==
    {p \in DOMAIN s.procs : s.procs[p].state = "READY" /\ InSeq(s.priority_heap, p)}

\* preemption check of the preemptive priority policy: the running process goes
\* back to READY when a ready process is strictly preferred
maybe_preempt_priority(s) ==
    IF /\ s.algorithm = "PRIORITY_P"
       /\ s.current # None
       /\ \E q \in HeapReady(s) : s.procs[q].priority < s.procs[s.current].priority
    THEN LET pid == s.current
         IN log([enqueue_ready([s EXCEPT !.procs[pid].state = "READY"], pid)
                    EXCEPT !.current = None],
                s.time, pid, "RUNNING", "READY", "preempt")
    ELSE s

\* lines 23-28
MakeRunning(s, pid) ==
    log([s EXCEPT !.current = pid,
                  !.procs[pid].state = "RUNNING",
                  !.procs[pid].start_time = IF @ = Null THEN s.time ELSE @],
        s.time, pid, "READY", "RUNNING", "")

\* phase C without the test that the CPU is idle
DispatchAlways(s) ==
    LET picked == pick_next_process(s)
    IN IF picked.proc # None THEN MakeRunning(picked.sched, picked.proc) ELSE picked.sched

\* C) dispatch if CPU is idle
Dispatch(s) ==
    IF s.current = None
    THEN LET picked == pick_next_process(s)
         IN IF picked.proc # None THEN MakeRunning(picked.sched, picked.proc)
            ELSE picked.sched
    ELSE s

\* the CPU burst is over: on to the I/O device, or DONE
handle_cpu_completion(s, pid) ==
    LET p == s.procs[pid]
    IN IF p.burst_index + 1 < Len(p.bursts)
       THEN LET idx == p.burst_index + 1
                waiting == [s EXCEPT !.procs[pid].state = "WAITING_IO",
                                     !.procs[pid].burst_index = idx,
                                     !.procs[pid].remaining_in_current_burst = p.bursts[idx + 1],
                                     !.io_queue = Append(@, pid),
                                     !.current = None]
            IN io_promote(log(waiting, s.time, pid, "RUNNING", "WAITING_IO", ""))
       ELSE log([s EXCEPT !.procs[pid].state = "DONE",
                          !.procs[pid].completion_time = s.time + 1,
                          !.current = None],
                s.time, pid, "RUNNING", "DONE", "")

\* lines 41-45
RotateOnTimeSlice(s, pid) ==
    log([enqueue_ready([s EXCEPT !.procs[pid].state = "READY"], pid) EXCEPT !.current = None],
        s.time, pid, "RUNNING", "READY", "time slice")

\* phase D that never rotates
ExecuteNoRotate(s) ==
    IF s.current = None THEN [s EXCEPT !.gantt = Append(@, "IDLE")]
    ELSE LET pid == s.current
             ran == [s EXCEPT !.gantt = Append(@, pid),
                              !.procs[pid].remaining_in_current_burst = @ - 1,
                              !.quantum_left = @ - 1]
         IN IF ran.procs[pid].remaining_in_current_burst = 0
            THEN handle_cpu_completion(ran, pid)
            ELSE ran

\* D) execute one CPU tick
Execute(s) ==
    IF s.current = None THEN [s EXCEPT !.gantt = Append(@, "IDLE")]
    ELSE LET pid == s.current
             ran == [s EXCEPT !.gantt = Append(@, pid),
                              !.procs[pid].remaining_in_current_burst = @ - 1,
                              !.quantum_left = @ - 1]
         IN IF ran.procs[pid].remaining_in_current_burst = 0
            THEN handle_cpu_completion(ran, pid)
            ELSE IF ran.algorithm = "RR" /\ ran.quantum_left = 0
            THEN RotateOnTimeSlice(ran, pid)
            ELSE ran

\* the I/O timeline token of a tick: the process the device serves in this tick
io_token(s) == IF s.io_active = None THEN "IDLE" ELSE s.io_active

tick_step(s) ==
    LET admitted == AdmitArrivals(s)
    IN [Execute(Dispatch(maybe_preempt_priority(AdvanceIO(admitted))))
           EXCEPT !.time = @ + 1,
                  !.io_gantt = Append(@, io_token(admitted))]

\* add_process message; the process has not arrived yet
AddProcess ==
    \E pid \in Pids \ DOMAIN sched.procs, arrival \in 0..MaxArrival, bursts \in BurstShapes :
        /\ arrival >= sched.time
        /\ sched' = add_process(sched, pid, arrival, DefaultPriority, bursts)

\* tick message
Tick ==
    /\ sched.time < MaxTicks
    /\ sched' = tick_step(sched)

(***************************************************************************)
(* Session: unnamed/part_017 (excerpt of the /ws/state endpoint).  Each     *)
(* websocket runs its own ws_state coroutine; all of them call the same     *)
(* session functions.  A coroutine gives way to the others only at its      *)
(* awaits: accept, receive_json and send_json.  The session functions are   *)
(* not part of the excerpt; they follow the message table of the written   *)
(* specification, on a summary of the simulator state.                      *)
(***************************************************************************)
MaxWsMsgs == 3      \* inbound messages, all websockets together
MaxWsTime == 2      \* the session's clock stops here
MaxWsProcs == 1     \* processes a session holds at most
DefaultSteps == 1
DefaultTickMs == 200

Conns == {"c1", "c2"}
MsgTypes == {"init", "tick", "run", "add_process", "set_quantum", "set_speed",
             "reset", "sync", "other"}

\* payloads: a type and the one field its branch reads (0 where it reads none)
Payloads ==
    [type : {"tick", "reset", "sync", "other", "add_process"}, arg : {0}]
    \cup [type : {"init", "set_quantum"}, arg : {DefaultQuantum, DefaultQuantum + 1}]
    \cup [type : {"run"}, arg : {DefaultSteps, DefaultSteps + 1}]
    \cup [type : {"set_speed"}, arg : {DefaultTickMs, DefaultTickMs \div 2}]

SessionNew == [time |-> 0, quantum |-> DefaultQuantum, tick_ms |-> DefaultTickMs, nprocs |-> 0]

get_state(session) == session

init_session(session, payload) == [SessionNew EXCEPT !.quantum = payload.arg]
tick_session(session) == [session EXCEPT !.time = @ + 1]
run_session(session, steps) == [session EXCEPT !.time = @ + steps]
add_process_session(session, payload) == [session EXCEPT !.nprocs = @ + 1]
set_quantum(session, quantum) == [session EXCEPT !.quantum = quantum]
set_speed(session, tick_ms) == [session EXCEPT !.tick_ms = tick_ms]
reset_session(session) == SessionNew

\* the if / elif chain with the sync branch advancing the clock
HandleMessageSyncTicks(session, payload) ==
    LET after ==
            CASE payload.type = "init" -> init_session(session, payload)
              [] payload.type = "tick" -> tick_session(session)
              [] payload.type = "run" -> run_session(session, payload.arg)
              [] payload.type = "add_process" -> add_process_session(session, payload)
              [] payload.type = "set_quantum" -> set_quantum(session, payload.arg)
              [] payload.type = "set_speed" -> set_speed(session, payload.arg)
              [] payload.type = "reset" -> reset_session(session)
              [] payload.type = "sync" -> tick_session(session)
              [] OTHER -> session
    IN [session |-> after, state |-> get_state(after)]

\* the if / elif chain on msg_type: the session afterwards and the state to send
HandleMessage(session, payload) ==
    LET after ==
            CASE payload.type = "init" -> init_session(session, payload)
              [] payload.type = "tick" -> tick_session(session)
              [] payload.type = "run" -> run_session(session, payload.arg)
              [] payload.type = "add_process" -> add_process_session(session, payload)
              [] payload.type = "set_quantum" -> set_quantum(session, payload.arg)
              [] payload.type = "set_speed" -> set_speed(session, payload.arg)
              [] payload.type = "reset" -> reset_session(session)
              [] OTHER -> session
    IN [session |-> after, state |-> get_state(after)]

\* a websocket before its connection is accepted; received counts its inbound
\* messages, sentSince and delivered are the state messages sent on it since the
\* last one
ConnNew ==
    [ pc |-> "accept", msg_type |-> "other", state |-> SessionNew,
      received |-> 0, sentSince |-> 0, delivered |-> <<>> ]

RECURSIVE SumOver(_, _)
SumOver(f, S) ==
    IF S = {} THEN 0 ELSE LET x == CHOOSE y \in S : TRUE IN f[x] + SumOver(f, S \ {x})

Received == SumOver([c \in Conns |-> wsConns[c].received], Conns)

\* await websocket.accept()
WsAccept(c) ==
    /\ wsConns[c].pc = "accept"
    /\ wsConns' = [wsConns EXCEPT ![c].pc = "greet"]
    /\ UNCHANGED wsSession

\* await websocket.send_json({"type": "state", "data": get_state()})
WsGreet(c) ==
    /\ wsConns[c].pc = "greet"
    /\ wsConns' = [wsConns EXCEPT ![c].pc = "receive",
                                  ![c].sentSince = @ + 1,
                                  ![c].delivered = <<get_state(wsSession)>>]
    /\ UNCHANGED wsSession

\* payload = await websocket.receive_json(), then the branch of its type, up to the
\* await of send_json
WsReceive(c) ==
    /\ wsConns[c].pc = "receive"
    /\ Received < MaxWsMsgs
    /\ \E payload \in Payloads :
          LET handled == HandleMessage(wsSession, payload)
          IN /\ handled.session.time <= MaxWsTime
             /\ handled.session.nprocs <= MaxWsProcs
             /\ wsSession' = handled.session
             /\ wsConns' = [wsConns EXCEPT ![c].pc = "send",
                                           ![c].msg_type = payload.type,
                                           ![c].state = handled.state,
                                           ![c].received = @ + 1,
                                           ![c].sentSince = 0,
                                           ![c].delivered = <<>>]

\* await websocket.send_json({"type": "state", "data": state})
WsSend(c) ==
    /\ wsConns[c].pc = "send"
    /\ wsConns' = [wsConns EXCEPT ![c].pc = "receive",
                                  ![c].sentSince = @ + 1,
                                  ![c].delivered = <<wsConns[c].state>>]
    /\ UNCHANGED wsSession

(***************************************************************************)
(* Page replacement: frontend/src/lib/memory/types.ts (runLRU), lfu.ts      *)
(* (runLFU), unnamed/part_000 (runFIFO, runOPT).  MemResult.hitRatio is     *)
(* hits / (hits + faults) and is not carried along.  A frame holding null   *)
(* holds Null here; slots are 1-based.                                      *)
(***************************************************************************)
MaxFrames == 2      \* framesCount is 0..MaxFrames
MaxRefs == 5        \* reference strings have up to MaxRefs entries
MaxPage == 2        \* pages are 0..MaxPage

\* reference strings as parseReferenceString returns them
RefStrings == SeqsUpTo(0..MaxPage, MaxRefs)

\* Math.max(0, Math.floor(rawRef)), on integers
NormRef(rawRef) == Max2(0, rawRef)

\* Math.max(1, Math.floor(framesCount))
FrameCount(framesCount) == Max2(1, framesCount)

EmptyFrames(frameCount) == [i \in 1..frameCount |-> Null]

Includes(frames, x) == \E i \in DOMAIN frames : frames[i] = x

IndexOf(frames, x) ==
    CHOOSE i \in DOMAIN frames : frames[i] = x /\ \A j \in 1..(i - 1) : frames[j] # x

\* evicted is Null when the step has no evicted field
MemStep(t, ref, frames, hit, evicted) ==
    [t |-> t, ref |-> ref, frames |-> frames, hit |-> hit, evicted |-> evicted]

MemResult(st) == [steps |-> st.steps, faults |-> st.faults, hits |-> st.hits, error |-> st.error]

\* DoublyLinkedList.remove, on the list of keys from head to tail
ListRemove(list, key) == SelectSeq(list, LAMBDA k : k # key)

\* touch that leaves a page the list already holds where it is
LruTouchNoMove(st, page) ==
    IF page \in st.nodeMap THEN st
    ELSE [st EXCEPT !.nodeMap = @ \cup {page}, !.list = Append(@, page)]

\* runLRU, touch
LruTouch(st, page) ==
    IF page \in st.nodeMap
    THEN [st EXCEPT !.list = Append(ListRemove(@, page), page)]
    ELSE [st EXCEPT !.nodeMap = @ \cup {page}, !.list = Append(@, page)]

\* runLRU, body of refs.forEach
LruStep(st, rawRef, t) ==
    LET ref == NormRef(rawRef)
        hit == Includes(st.frames, ref)
    IN IF hit
       THEN LET touched == LruTouch([st EXCEPT !.hits = @ + 1], ref)
            IN [touched EXCEPT !.steps = Append(@, MemStep(t, ref, touched.frames, hit, Null))]
       ELSE IF Includes(st.frames, Null)
       THEN LET slot == IndexOf(st.frames, Null)
                loaded == LruTouch([st EXCEPT !.faults = @ + 1, !.frames[slot] = ref], ref)
            IN [loaded EXCEPT !.steps = Append(@, MemStep(t, ref, loaded.frames, hit, Null))]
       ELSE IF st.list = <<>>
       THEN [st EXCEPT !.faults = @ + 1, !.error = TRUE]
       ELSE LET victim == Head(st.list)
                slot == IndexOf(st.frames, victim)
                swapped == LruTouch([st EXCEPT !.faults = @ + 1,
                                               !.list = Tail(@),
                                               !.frames[slot] = ref,
                                               !.nodeMap = @ \ {victim}], ref)
            IN [swapped EXCEPT !.steps = Append(@, MemStep(t, ref, swapped.frames, hit, victim))]

RECURSIVE LruRun(_, _, _)
LruRun(st, refs, t) ==
    IF t >= Len(refs) \/ st.error THEN st
    ELSE LruRun(LruStep(st, refs[t + 1], t), refs, t + 1)

\* runLRU before the first reference
LruNew(framesCount) ==
    [ frames |-> EmptyFrames(FrameCount(framesCount)), nodeMap |-> {},
      list |-> <<>>, hits |-> 0, faults |-> 0, steps |-> <<>>, error |-> FALSE ]

runLRU(framesCount, refs) == MemResult(LruRun(LruNew(framesCount), refs, 0))

\* runFIFO, body of refs.forEach, with a pointer that stays where it is
FifoStepStuckPointer(st, rawRef, t) ==
    LET ref == NormRef(rawRef)
        hit == Includes(st.frames, ref)
    IN IF hit
       THEN [st EXCEPT !.hits = @ + 1,
                       !.steps = Append(@, MemStep(t, ref, st.frames, hit, Null))]
       ELSE IF Includes(st.frames, Null)
       THEN LET frames == [st.frames EXCEPT ![IndexOf(st.frames, Null)] = ref]
            IN [st EXCEPT !.faults = @ + 1, !.frames = frames,
                          !.steps = Append(@, MemStep(t, ref, frames, hit, Null))]
       ELSE LET victim == st.frames[st.pointer + 1]
                frames == [st.frames EXCEPT ![st.pointer + 1] = ref]
            IN [st EXCEPT !.faults = @ + 1, !.frames = frames,
                          !.steps = Append(@, MemStep(t, ref, frames, hit, victim))]

\* runFIFO, body of refs.forEach
FifoStep(st, rawRef, t) ==
    LET ref == NormRef(rawRef)
        hit == Includes(st.frames, ref)
    IN IF hit
       THEN [st EXCEPT !.hits = @ + 1,
                       !.steps = Append(@, MemStep(t, ref, st.frames, hit, Null))]
       ELSE IF Includes(st.frames, Null)
       THEN LET frames == [st.frames EXCEPT ![IndexOf(st.frames, Null)] = ref]
            IN [st EXCEPT !.faults = @ + 1, !.frames = frames,
                          !.steps = Append(@, MemStep(t, ref, frames, hit, Null))]
       ELSE LET victim == st.frames[st.pointer + 1]
                frames == [st.frames EXCEPT ![st.pointer + 1] = ref]
            IN [st EXCEPT !.faults = @ + 1, !.frames = frames,
                          !.pointer = (@ + 1) % Len(st.frames),
                          !.steps = Append(@, MemStep(t, ref, frames, hit, victim))]

RECURSIVE FifoRun(_, _, _)
FifoRun(st, refs, t) ==
    IF t >= Len(refs) THEN st
    ELSE FifoRun(FifoStep(st, refs[t + 1], t), refs, t + 1)

runFIFO(framesCount, refs) ==
    MemResult(FifoRun([ frames |-> EmptyFrames(FrameCount(framesCount)), pointer |-> 0,
                        hits |-> 0, faults |-> 0, steps |-> <<>>, error |-> FALSE ],
                      refs, 0))

\* Number.POSITIVE_INFINITY: beyond every index of refs
OptInfinity(refs) == Len(refs) + 1

\* the next use looked up in the whole of refs
OptDistanceFromStart(refs, t, page) ==
    LET uses == {i \in 0..(Len(refs) - 1) : refs[i + 1] = page}
    IN IF uses = {} THEN OptInfinity(refs)
       ELSE CHOOSE i \in uses : \A j \in uses : i <= j

\* refs.slice(t + 1).findIndex(candidate => candidate === page), Infinity when < 0
OptDistance(refs, t, page) ==
    LET uses == {i \in 0..(Len(refs) - t - 2) : refs[t + 1 + i + 1] = page}
    IN IF uses = {} THEN OptInfinity(refs)
       ELSE CHOOSE i \in uses : \A j \in uses : i <= j

\* frames.forEach of runOPT: <<victimSlot, farthest>> after slots 1..idx
RECURSIVE OptScan(_, _, _, _)
OptScan(frames, refs, t, idx) ==
    IF idx = 0 THEN <<1, -1>>
    ELSE LET prev == OptScan(frames, refs, t, idx - 1)
         IN IF frames[idx] = Null THEN prev
            ELSE IF OptDistance(refs, t, frames[idx]) > prev[2]
            THEN <<idx, OptDistance(refs, t, frames[idx])>>
            ELSE prev

\* runOPT, body of refs.forEach
OptStep(st, refs, t) ==
    LET ref == NormRef(refs[t + 1])
        hit == Includes(st.frames, ref)
    IN IF hit
       THEN [st EXCEPT !.hits = @ + 1,
                       !.steps = Append(@, MemStep(t, ref, st.frames, hit, Null))]
       ELSE IF Includes(st.frames, Null)
       THEN LET frames == [st.frames EXCEPT ![IndexOf(st.frames, Null)] = ref]
            IN [st EXCEPT !.faults = @ + 1, !.frames = frames,
                          !.steps = Append(@, MemStep(t, ref, frames, hit, Null))]
       ELSE LET victimSlot == OptScan(st.frames, refs, t, Len(st.frames))[1]
                victim == st.frames[victimSlot]
                frames == [st.frames EXCEPT ![victimSlot] = ref]
            IN [st EXCEPT !.faults = @ + 1, !.frames = frames,
                          !.steps = Append(@, MemStep(t, ref, frames, hit, victim))]

RECURSIVE OptRun(_, _, _)
OptRun(st, refs, t) ==
    IF t >= Len(refs) THEN st
    ELSE OptRun(OptStep(st, refs, t), refs, t + 1)

runOPT(framesCount, refs) ==
    MemResult(OptRun([ frames |-> EmptyFrames(FrameCount(framesCount)),
                       hits |-> 0, faults |-> 0, steps |-> <<>>, error |-> FALSE ],
                     refs, 0))

\* Map.set and Map.delete, a Map being a function on its keys
MapSet(m, k, v) == [x \in DOMAIN m \cup {k} |-> IF x = k THEN v ELSE m[x]]
MapDelete(m, k) == [x \in DOMAIN m \ {k} |-> m[x]]

\* runLFU, getBucket: the buckets with a list for freq
WithBucket(buckets, freq) ==
    IF freq \in DOMAIN buckets THEN buckets ELSE MapSet(buckets, freq, <<>>)

\* touch that puts the node back into the bucket it came from
LfuTouchKeepFreq(st, page) ==
    LET freq == st.pageToNode[page]
    IN IF freq \in DOMAIN st.buckets
       THEN [st EXCEPT !.buckets[freq] = Append(ListRemove(@, page), page)]
       ELSE st

\* touch that leaves minFreq as it is
LfuTouchKeepMin(st, page) ==
    LET freq == st.pageToNode[page]
        hasBucket == freq \in DOMAIN st.buckets
        removed == IF hasBucket
                   THEN [st EXCEPT !.buckets[freq] = ListRemove(@, page)]
                   ELSE st
        emptied == hasBucket /\ removed.buckets[freq] = <<>>
        dropped == IF emptied
                   THEN [removed EXCEPT !.buckets = MapDelete(@, freq)]
                   ELSE removed
        target == WithBucket(dropped.buckets, freq + 1)
    IN [dropped EXCEPT !.pageToNode[page] = freq + 1,
                       !.buckets = [target EXCEPT ![freq + 1] = Append(@, page)]]

\* runLFU, touch: buckets maps a frequency to its FreqList (pages from head to
\* tail), pageToNode maps a page to its node's freq
LfuTouch(st, page) ==
    LET freq == st.pageToNode[page]
        hasBucket == freq \in DOMAIN st.buckets
        removed == IF hasBucket
                   THEN [st EXCEPT !.buckets[freq] = ListRemove(@, page)]
                   ELSE st
        emptied == hasBucket /\ removed.buckets[freq] = <<>>
        dropped == IF emptied
                   THEN [removed EXCEPT !.buckets = MapDelete(@, freq),
                                        !.minFreq = IF @ = freq THEN @ + 1 ELSE @]
                   ELSE removed
        target == WithBucket(dropped.buckets, freq + 1)
    IN [dropped EXCEPT !.pageToNode[page] = freq + 1,
                       !.buckets = [target EXCEPT ![freq + 1] = Append(@, page)]]

\* the eviction of runLFU that leaves the victim in its frame
LfuEvictKeepFrame(st) ==
    IF st.minFreq \notin DOMAIN st.buckets \/ st.buckets[st.minFreq] = <<>>
    THEN [st EXCEPT !.error = TRUE]
    ELSE LET victim == Head(st.buckets[st.minFreq])
             popped == [st EXCEPT !.buckets[st.minFreq] = Tail(@)]
         IN [popped EXCEPT !.pageToNode = MapDelete(@, victim),
                           !.evicted = victim,
                           !.buckets = IF popped.buckets[st.minFreq] = <<>>
                                       THEN MapDelete(@, st.minFreq) ELSE @]

\* runLFU, the eviction inside the fault branch
LfuEvict(st) ==
    IF st.minFreq \notin DOMAIN st.buckets \/ st.buckets[st.minFreq] = <<>>
    THEN [st EXCEPT !.error = TRUE]
    ELSE LET victim == Head(st.buckets[st.minFreq])
             popped == [st EXCEPT !.buckets[st.minFreq] = Tail(@)]
             slot == IndexOf(st.frames, victim)
         IN [popped EXCEPT !.frames[slot] = Null,
                           !.pageToNode = MapDelete(@, victim),
                           !.evicted = victim,
                           !.buckets = IF popped.buckets[st.minFreq] = <<>>
                                       THEN MapDelete(@, st.minFreq) ELSE @]

\* runLFU, body of refs.forEach
LfuStep(st, rawRef, t) ==
    LET ref == NormRef(rawRef)
        hit == ref \in DOMAIN st.pageToNode
    IN IF hit
       THEN LET touched == LfuTouch([st EXCEPT !.hits = @ + 1], ref)
            IN [touched EXCEPT !.steps = Append(@, MemStep(t, ref, touched.frames, hit, Null))]
       ELSE LET faulted == [st EXCEPT !.faults = @ + 1, !.evicted = Null]
                room == IF Cardinality(DOMAIN faulted.pageToNode) >= Len(faulted.frames)
                        THEN LfuEvict(faulted) ELSE faulted
                targetSlot == IF Includes(room.frames, Null)
                              THEN IndexOf(room.frames, Null) ELSE 1
                target == WithBucket(room.buckets, 1)
            IN IF room.error THEN room
               ELSE [room EXCEPT !.frames[targetSlot] = ref,
                                 !.pageToNode = MapSet(@, ref, 1),
                                 !.buckets = [target EXCEPT ![1] = Append(@, ref)],
                                 !.minFreq = 1,
                                 !.steps = Append(@, MemStep(t, ref,
                                               [room.frames EXCEPT ![targetSlot] = ref],
                                               hit, room.evicted))]

RECURSIVE LfuRun(_, _, _)
LfuRun(st, refs, t) ==
    IF t >= Len(refs) \/ st.error THEN st
    ELSE LfuRun(LfuStep(st, refs[t + 1], t), refs, t + 1)

\* runLFU before the first reference
LfuNew(framesCount) ==
    [ frames |-> EmptyFrames(FrameCount(framesCount)),
      pageToNode |-> <<>>, buckets |-> <<>>, minFreq |-> 0, evicted |-> Null,
      hits |-> 0, faults |-> 0, steps |-> <<>>, error |-> FALSE ]

runLFU(framesCount, refs) == MemResult(LfuRun(LfuNew(framesCount), refs, 0))

\* runMemoryAlgorithm
runMemoryAlgorithm(algo, frames, refs) ==
    CASE algo = "FIFO" -> runFIFO(frames, refs)
      [] algo = "LFU" -> runLFU(frames, refs)
      [] algo = "OPT" -> runOPT(frames, refs)
      [] OTHER -> runLRU(frames, refs)

RunLRU ==
    /\ pgResult = <<>>
    /\ pgResult' = <<"LRU", runMemoryAlgorithm("LRU", pgInput.frames, pgInput.refs)>>
    /\ UNCHANGED pgInput

RunLFU ==
    /\ pgResult = <<>>
    /\ pgResult' = <<"LFU", runMemoryAlgorithm("LFU", pgInput.frames, pgInput.refs)>>
    /\ UNCHANGED pgInput

RunFIFO ==
    /\ pgResult = <<>>
    /\ pgResult' = <<"FIFO", runMemoryAlgorithm("FIFO", pgInput.frames, pgInput.refs)>>
    /\ UNCHANGED pgInput

RunOPT ==
    /\ pgResult = <<>>
    /\ pgResult' = <<"OPT", runMemoryAlgorithm("OPT", pgInput.frames, pgInput.refs)>>
    /\ UNCHANGED pgInput

(***************************************************************************)
(* Pareto front: unnamed/part_002.  Metric values are counted in halves of  *)
(* the tolerance EPS (1e-9 in the source), so that EPS is 2 here and two    *)
(* values may differ by less than EPS.  A row is the tuple of its           *)
(* objectives' values.                                                      *)
(***************************************************************************)
MaxRows == 3        \* paretoFront is given up to MaxRows rows
MaxMetric == 3      \* metric values are 0..MaxMetric
EPS == 2

\* one objective to minimise, one to maximise
Objectives == <<"min", "max">>

Rows == [1..Len(Objectives) -> 0..MaxMetric]

\* isNoWorse without the tolerance
isNoWorseExact(a, b, direction) ==
    IF direction = "min" THEN a <= b ELSE a >= b

isNoWorse(a, b, direction) ==
    IF direction = "min" THEN a <= b + EPS ELSE a >= b - EPS

isStrictlyBetter(a, b, direction) ==
    IF direction = "min" THEN a < b - EPS ELSE a > b + EPS

\* the for loop of dominates after objectives 1..k: "false" once it has returned
\* false, else whether strictlyBetter is set
RECURSIVE DominatesLoop(_, _, _, _)
DominatesLoop(candidate, target, objectives, k) ==
    IF k = 0 THEN "none"
    ELSE LET before == DominatesLoop(candidate, target, objectives, k - 1)
         IN IF before = "false" THEN "false"
            ELSE IF ~isNoWorse(candidate[k], target[k], objectives[k]) THEN "false"
            ELSE IF isStrictlyBetter(candidate[k], target[k], objectives[k]) THEN "better"
            ELSE before

dominates(candidate, target, objectives) ==
    DominatesLoop(candidate, target, objectives, Len(objectives)) = "better"

\* the outer loop of paretoFront after rows 1..i
RECURSIVE FrontUpTo(_, _, _)
FrontUpTo(rows, objectives, i) ==
    IF i = 0 THEN <<>>
    ELSE LET dominated == \E j \in DOMAIN rows :
                              j # i /\ dominates(rows[j], rows[i], objectives)
             front == FrontUpTo(rows, objectives, i - 1)
         IN IF dominated THEN front ELSE Append(front, rows[i])

paretoFront(rows, objectives) == FrontUpTo(rows, objectives, Len(rows))

RunPareto ==
    /\ prResult = <<>>
    /\ prResult' = <<paretoFront(prInput, Objectives)>>
    /\ UNCHANGED prInput

(***************************************************************************)
(* Event-log parsing: frontend/src/components/diagram/events.ts.  A string  *)
(* is the sequence of its characters.                                      *)
(***************************************************************************)
MaxLogLines == 2    \* the event log holds up to MaxLogLines lines
MaxLogT == 10       \* the lines are written at tick 0 or tick MaxLogT

LowerCase == << "a", "b", "c", "d", "e", "f", "g", "h", "i", "j", "k", "l", "m",
                "n", "o", "p", "q", "r", "s", "t", "u", "v", "w", "x", "y", "z" >>
UpperCase == << "A", "B", "C", "D", "E", "F", "G", "H", "I", "J", "K", "L", "M",
                "N", "O", "P", "Q", "R", "S", "T", "U", "V", "W", "X", "Y", "Z" >>
DigitChars == << "0", "1", "2", "3", "4", "5", "6", "7", "8", "9" >>

Range(f) == {f[i] : i \in DOMAIN f}

\* the character classes of TRANSITION_RE: \s, \d and [A-Za-z0-9_]
Space == {" "}
Digit == Range(DigitChars)
Word == Range(LowerCase) \cup Range(UpperCase) \cup Digit \cup {"_"}

\* the strings the backend puts into a line, as character sequences
Chars(str) ==
    CASE str = "P1" -> <<"P", "1">>
      [] str = "P2" -> <<"P", "2">>
      [] str = "P3" -> <<"P", "3">>
      [] str = "NEW" -> <<"N", "E", "W">>
      [] str = "READY" -> <<"R", "E", "A", "D", "Y">>
      [] str = "RUNNING" -> <<"R", "U", "N", "N", "I", "N", "G">>
      [] str = "WAITING" -> <<"W", "A", "I", "T", "I", "N", "G">>
      [] str = "WAITING_IO" -> <<"W", "A", "I", "T", "I", "N", "G", "_", "I", "O">>
      [] str = "WAITING_MEM" -> <<"W", "A", "I", "T", "I", "N", "G", "_", "M", "E", "M">>
      [] str = "DONE" -> <<"D", "O", "N", "E">>
      [] str = "time slice" -> <<"t", "i", "m", "e", " ", "s", "l", "i", "c", "e">>
      [] str = "preempt" -> <<"p", "r", "e", "e", "m", "p", "t">>
      [] str = "page fault" -> <<"p", "a", "g", "e", " ", "f", "a", "u", "l", "t">>
      [] str = "TIMESLICE" -> <<"T", "I", "M", "E", "S", "L", "I", "C", "E">>
      [] str = "IO" -> <<"I", "O">>
      [] str = "I/O" -> <<"I", "/", "O">>
      [] str = "ARRIVAL" -> <<"A", "R", "R", "I", "V", "A", "L">>
      [] str = "ARRIVED" -> <<"A", "R", "R", "I", "V", "E", "D">>
      [] str = "TIME" -> <<"T", "I", "M", "E">>
      [] str = "SLICE" -> <<"S", "L", "I", "C", "E">>
      [] OTHER -> <<>>

\* f"{self.time}": the decimal digits of n
RECURSIVE Decimal(_)
Decimal(n) ==
    IF n < 10 THEN <<DigitChars[n + 1]>>
    ELSE Append(Decimal(n \div 10), DigitChars[(n % 10) + 1])

\* the line self.log is given: f"t={time}: {pid} {FROM} -> {TO}", with " ({reason})"
\* after it when the transition has a reason
FormatLine(tr) ==
    <<"t", "=">> \o Decimal(tr.t) \o <<":", " ">> \o Chars(tr.pid) \o <<" ">>
        \o Chars(tr.from) \o <<" ", "-", ">", " ">> \o Chars(tr.to)
        \o (IF tr.reason = "" THEN <<>>
            ELSE <<" ", "(">> \o Chars(tr.reason) \o <<")">>)

\* the transitions the backend logs, with their reasons
LoggedTransitions ==
    { <<"NEW", "READY", "">>, <<"READY", "RUNNING", "">>,
      <<"RUNNING", "READY", "time slice">>, <<"RUNNING", "READY", "preempt">>,
      <<"RUNNING", "WAITING_IO", "">>, <<"WAITING_IO", "READY", "">>,
      <<"RUNNING", "WAITING_MEM", "page fault">>, <<"WAITING_MEM", "READY", "">>,
      <<"RUNNING", "DONE", "">> }

LogPids == {"P1"}

LoggedLines ==
    { Transition(t, pid, k[1], k[2], k[3]) :
        t \in {0, MaxLogT}, pid \in LogPids, k \in LoggedTransitions }

\* the upper-case letter of each lower-case letter
UpperOf ==
    [c \in Range(LowerCase) |-> UpperCase[CHOOSE k \in DOMAIN LowerCase : LowerCase[k] = c]]

toUpperCase(text) ==
    [i \in DOMAIN text |-> IF text[i] \in DOMAIN UpperOf THEN UpperOf[text[i]] ELSE text[i]]

\* Number(digits)
RECURSIVE Number(_)
Number(digits) ==
    IF digits = <<>> THEN 0
    ELSE 10 * Number(SubSeq(digits, 1, Len(digits) - 1))
         + (CHOOSE d \in 0..9 : DigitChars[d + 1] = digits[Len(digits)])

(* The pieces of a regular expression met from position p of line on: each  *)
(* gives the position after the piece, or 0 when the piece does not match   *)
(* (or p is 0 already).  Every repetition of TRANSITION_RE is followed by a *)
(* piece that cannot begin with a character of the repeated class, so the   *)
(* longest repetition is the only one a match can use.                      *)

\* literal text, letters compared without case (the i flag)
AfterLit(line, p, lit) ==
    IF p = 0 \/ p + Len(lit) - 1 > Len(line) THEN 0
    ELSE IF toUpperCase(SubSeq(line, p, p + Len(lit) - 1)) = toUpperCase(lit)
         THEN p + Len(lit)
         ELSE 0

\* class*: zero or more characters of class
RECURSIVE AfterAny(_, _, _)
AfterAny(line, p, class) ==
    IF p = 0 THEN 0
    ELSE IF p <= Len(line) /\ line[p] \in class THEN AfterAny(line, p + 1, class)
    ELSE p

\* class+: one or more characters of class
AfterSome(line, p, class) ==
    LET q == AfterAny(line, p, class) IN IF q > p THEN q ELSE 0

\* [^)]+: one or more characters other than ")"
RECURSIVE AfterNotParen(_, _, _)
AfterNotParen(line, p, n) ==
    IF p = 0 THEN 0
    ELSE IF p <= Len(line) /\ line[p] # ")" THEN AfterNotParen(line, p + 1, n + 1)
    ELSE IF n > 0 THEN p ELSE 0

\* (NEW|READY|RUNNING|WAITING|DONE), the alternatives tried in this order
StateNames == <<"NEW", "READY", "RUNNING", "WAITING", "DONE">>

AfterState(line, p) ==
    LET fits == {k \in DOMAIN StateNames : AfterLit(line, p, Chars(StateNames[k])) # 0}
    IN IF fits = {} THEN 0
       ELSE AfterLit(line, p, Chars(StateNames[CHOOSE k \in fits : \A j \in fits : k <= j]))

\* (?:->|...): "->", or the three characters the source file has as the second
\* alternative (U+00E2, U+2020, U+2019, written here by their names)
AfterArrow(line, p) ==
    IF AfterLit(line, p, <<"-", ">">>) # 0 THEN AfterLit(line, p, <<"-", ">">>)
    ELSE AfterLit(line, p, <<"a-circumflex", "dagger", "right-quote">>)

Undefined == <<"undefined">>

\* TRANSITION_RE tried at position p: <<>> or the groups <<1, 2, 3, 4, 5>> of the match
MatchAt(line, p) ==
    LET tStart == AfterAny(line, AfterLit(line, AfterAny(line, AfterLit(line, p, <<"t">>),
                                                         Space), <<"=">>), Space)
        tEnd == AfterSome(line, tStart, Digit)
        pidStart == AfterAny(line, AfterLit(line, AfterAny(line, tEnd, Space), <<":">>), Space)
        pidEnd == AfterSome(line, pidStart, Word)
        fromStart == AfterSome(line, pidEnd, Space)
        fromEnd == AfterState(line, fromStart)
        toStart == AfterAny(line, AfterArrow(line, AfterAny(line, fromEnd, Space)), Space)
        toEnd == AfterState(line, toStart)
        reasonStart == AfterLit(line, AfterAny(line, toEnd, Space), <<"(">>)
        reasonEnd == AfterNotParen(line, reasonStart, 0)
        closed == AfterLit(line, reasonEnd, <<")">>)
    IN IF toEnd = 0 THEN <<>>
       ELSE << SubSeq(line, tStart, tEnd - 1),
               SubSeq(line, pidStart, pidEnd - 1),
               SubSeq(line, fromStart, fromEnd - 1),
               SubSeq(line, toStart, toEnd - 1),
               IF closed # 0 THEN SubSeq(line, reasonStart, reasonEnd - 1) ELSE Undefined >>

\* line.match(TRANSITION_RE): the match at the leftmost position that has one
RECURSIVE MatchFrom(_, _)
MatchFrom(line, p) ==
    IF p > Len(line) THEN <<>>
    ELSE IF MatchAt(line, p) # <<>> THEN MatchAt(line, p)
    ELSE MatchFrom(line, p + 1)

Match(line) == MatchFrom(line, 1)

\* a regular expression of literal pieces with \s* between them, tested anywhere
\* in text
RECURSIVE AfterPieces(_, _, _)
AfterPieces(text, p, pieces) ==
    IF pieces = <<>> THEN p
    ELSE AfterPieces(text, AfterAny(text, AfterLit(text, p, Head(pieces)), Space),
                     Tail(pieces))

Test(text, pieces) == \E p \in DOMAIN text : AfterPieces(text, p, pieces) # 0

\* String.prototype.trim
RECURSIVE trim(_)
trim(text) ==
    IF text = <<>> THEN text
    ELSE IF Head(text) \in Space THEN trim(Tail(text))
    ELSE IF text[Len(text)] \in Space THEN trim(SubSeq(text, 1, Len(text) - 1))
    ELSE text

normalizeReason(reason) ==
    IF reason = Undefined \/ reason = <<>> THEN Undefined
    ELSE LET text == trim(reason)
         IN IF text = <<>> THEN Undefined
            ELSE IF Test(text, <<Chars("TIME"), Chars("SLICE")>>) THEN Chars("TIMESLICE")
            ELSE IF Test(text, <<Chars("IO")>>) \/ Test(text, <<Chars("I/O")>>)
                 THEN Chars("IO")
            ELSE IF Test(text, <<Chars("DONE")>>) THEN Chars("DONE")
            ELSE IF Test(text, <<Chars("ARRIVAL")>>) \/ Test(text, <<Chars("ARRIVED")>>)
                 THEN Chars("ARRIVAL")
            ELSE toUpperCase(text)

asState(value) ==
    LET normalized == toUpperCase(value)
    IN IF \E k \in DOMAIN StateNames : normalized = Chars(StateNames[k])
       THEN normalized
       ELSE Chars("READY")

\* <<>> for null, else <<the SimEvent>>
parseSimTransition(line) ==
    IF line = <<>> THEN <<>>
    ELSE LET match == Match(line)
         IN IF match = <<>> THEN <<>>
            ELSE << [ t |-> Number(match[1]),
                      pid |-> match[2],
                      from |-> asState(match[3]),
                      to |-> asState(match[4]),
                      reason |-> normalizeReason(match[5]) ] >>

\* the loop of parseSimEvents over log[i], i = Math.max(0, fromIndex) .. upTo - 1
RECURSIVE ParseUpTo(_, _, _)
ParseUpTo(logLines, fromIndex, upTo) ==
    IF upTo <= Max2(0, fromIndex) THEN <<>>
    ELSE ParseUpTo(logLines, fromIndex, upTo - 1) \o parseSimTransition(logLines[upTo])

parseSimEvents(logLines, fromIndex) == ParseUpTo(logLines, fromIndex, Len(logLines))

\* the path applyEventTransition starts the token of event.pid on, "" when none
applyEventTransition(event) ==
    IF event.from = Chars("READY") /\ event.to = Chars("RUNNING") THEN "readyToCpu"
    ELSE IF event.from = Chars("RUNNING") /\ event.to = Chars("WAITING") THEN "cpuToIo"
    ELSE IF event.from = Chars("WAITING") /\ event.to = Chars("READY") THEN "ioToQueueReturn"
    ELSE IF event.from = Chars("RUNNING") /\ event.to = Chars("READY") THEN "cpuToQueueReturn"
    ELSE IF event.from = Chars("RUNNING") /\ event.to = Chars("DONE") THEN "cpuToDone"
    ELSE ""

\* the scene's handling of a new state: parse the log from fromIndex on and apply
\* each event to the tokens
ParseSimEvents(fromIndex) ==
    /\ evResult = <<>>
    /\ LET newEvents == parseSimEvents([i \in DOMAIN evLog |-> FormatLine(evLog[i])],
                                       fromIndex)
       IN evResult' = <<fromIndex, newEvents,
                        [k \in DOMAIN newEvents |-> applyEventTransition(newEvents[k])]>>
    /\ UNCHANGED evLog

(***************************************************************************)
(* Add-process form: frontend/src/components/dashboard/AddProcessModal.tsx  *)
(***************************************************************************)
MaxBursts == 3      \* addBurst is used while the list has fewer than MaxBursts entries
MaxSubmits == 2     \* submit is called up to MaxSubmits times
MaxBurstInput == 1  \* the burst inputs hold numbers up to MaxBurstInput

DEFAULT_BURSTS == <<4>>

\* what the pid input may hold; "P1" is among existingPids
FormPids == {"", "P1", "P4"}
ExistingPids == {"P1"}

\* the texts of a burst input by what Number.parseInt makes of them: a text that is
\* no number (NaN), or the decimal text of -1 .. MaxBurstInput (the empty text is
\* read as "1")
BurstTexts ==
    {[nan |-> TRUE, value |-> 0]} \cup {[nan |-> FALSE, value |-> v] : v \in (-1)..MaxBurstInput}

\* Number.parseInt(event.target.value || "1", 10) || 1
ParseBurstText(text) ==
    IF text.nan \/ text.value = 0 THEN 1 ELSE text.value

FormNew == [pid |-> "", bursts |-> DEFAULT_BURSTS, formError |-> "", submitCalls |-> 0]

\* validBursts without the test of the length's parity
validBurstsAnyLength(bursts) ==
    Len(bursts) > 0 /\ \A i \in DOMAIN bursts : bursts[i] > 0

validBursts(bursts) ==
    Len(bursts) > 0 /\ Len(bursts) % 2 = 1 /\ \A i \in DOMAIN bursts : bursts[i] > 0

nextKind(bursts) == IF Len(bursts) % 2 = 1 THEN "IO" ELSE "CPU"

\* index is the 0-based index of the source
updateBurst(bursts, index, value) ==
    [i \in DOMAIN bursts |-> IF i - 1 = index THEN value ELSE bursts[i]]

removeBurst(bursts, index) ==
    IF Len(bursts) <= 1 THEN bursts
    ELSE LET copy == SubSeq(bursts, 1, index) \o SubSeq(bursts, index + 2, Len(bursts))
         IN IF Len(copy) > 0 THEN copy ELSE DEFAULT_BURSTS

addBurst(bursts, kind) ==
    IF kind # nextKind(bursts) THEN bursts
    ELSE Append(bursts, IF kind = "CPU" THEN 2 ELSE 1)

\* submit in CPU-only mode, arrival time and priority left at their defaults:
\* <<the form after it, <<>> or <<the bursts handed to onSubmitProcess>> >>; ok is what
\* onSubmitProcess returns (reset on close when it is true)
submit(f, ok) ==
    LET called == [f EXCEPT !.submitCalls = @ + 1, !.formError = ""]
    IN IF f.pid = "" THEN <<[called EXCEPT !.formError = "PID is required."], <<>> >>
       ELSE IF f.pid \in ExistingPids
            THEN <<[called EXCEPT !.formError = "PID already exists in current simulation."], <<>> >>
       ELSE IF ~validBursts(f.bursts)
            THEN <<[called EXCEPT !.formError =
                       "Bursts must be positive integers and end with CPU burst."], <<>> >>
       ELSE << IF ok THEN [FormNew EXCEPT !.submitCalls = called.submitCalls] ELSE called,
               <<f.bursts>> >>

SetPid(pid) ==
    /\ form' = [form EXCEPT !.pid = pid]
    /\ UNCHANGED submitted

UpdateBurst(index, text) ==
    /\ form' = [form EXCEPT !.bursts = updateBurst(@, index, ParseBurstText(text))]
    /\ UNCHANGED submitted

RemoveBurst(index) ==
    /\ Len(form.bursts) > 1
    /\ form' = [form EXCEPT !.bursts = removeBurst(@, index)]
    /\ UNCHANGED submitted

AddBurst(kind) ==
    /\ Len(form.bursts) < MaxBursts
    /\ form' = [form EXCEPT !.bursts = addBurst(@, kind)]
    /\ UNCHANGED submitted

Submit(ok) ==
    /\ form.submitCalls < MaxSubmits
    /\ form' = submit(form, ok)[1]
    /\ submitted' = IF submit(form, ok)[2] = <<>> THEN submitted ELSE submit(form, ok)[2]

(***************************************************************************)
(* Robust normalization: frontend/src/lib/recommend/normalize.ts.  A number *)
(* is [finite, v]: v counts halves of the tolerance (1e-6 in the source),   *)
(* so that the tolerance is 2 here.  A percentile is kept as 100 times its  *)
(* value, which is a whole number of these units.  A returned value is      *)
(* [f, num, den]: num/den when f is "id", sigmoid(num/den) when f is        *)
(* "sigmoid".                                                              *)
(***************************************************************************)
MaxCohort == 4      \* a cohort has up to MaxCohort rows
MaxNormVal == 3     \* finite metric values are 0..MaxNormVal
NORM_EPS == 2

Finite(v) == [finite |-> TRUE, v |-> v]
NotFinite == [finite |-> FALSE, v |-> 0]

RawMetrics == {NotFinite} \cup {Finite(v) : v \in 0..MaxNormVal}

\* getMetric (unnamed/part_001): a value that is not finite counts as 0
getMetric(raw) == IF ~raw.finite THEN Finite(0) ELSE raw

Abs(x) == IF x < 0 THEN -x ELSE x

\* 100 * percentile(values, q) of finite values
percentile(values, q) ==
    IF Len(values) = 0 THEN 0
    ELSE LET sorted == SortSeq(values, LAMBDA a, b : a < b)
             position == q * (Len(sorted) - 1)
             lower == position \div 100
             weight == position % 100
         IN IF weight = 0 THEN 100 * sorted[lower + 1]
            ELSE sorted[lower + 1] * (100 - weight) + sorted[lower + 2] * weight

SeqMin(values) == CHOOSE x \in {values[i] : i \in DOMAIN values} :
                      \A i \in DOMAIN values : x <= values[i]
SeqMax(values) == CHOOSE x \in {values[i] : i \in DOMAIN values} :
                      \A i \in DOMAIN values : x >= values[i]

\* median and iqr are 100 times the source's
buildScale(values) ==
    LET kept == SelectSeq(values, LAMBDA value : value.finite)
        finite == [i \in DOMAIN kept |-> kept[i].v]
    IN IF Len(finite) = 0
       THEN [median |-> 0, iqr |-> 0, min |-> 0, max |-> 0, useMinMax |-> TRUE]
       ELSE LET iqr == percentile(finite, 75) - percentile(finite, 25)
            IN [ median |-> percentile(finite, 50),
                 iqr |-> iqr,
                 min |-> SeqMin(finite),
                 max |-> SeqMax(finite),
                 useMinMax |-> Abs(iqr) < 100 * NORM_EPS ]

Quotient(f, num, den) == [f |-> f, num |-> num, den |-> den]

\* robustNormalizeMetric without the test of the range
robustNormalizeMetricNoRangeTest(values, direction) ==
    LET scale == buildScale(values)
        range == scale.max - scale.min
    IN [i \in DOMAIN values |->
           IF ~values[i].finite THEN Quotient("id", 1, 1)
           ELSE IF direction = "low" THEN Quotient("id", values[i].v - scale.min, range)
           ELSE Quotient("id", range - (values[i].v - scale.min), range)]

robustNormalizeMetric(values, direction) ==
    LET scale == buildScale(values)
        range == scale.max - scale.min
    IN IF scale.useMinMax
       THEN [i \in DOMAIN values |->
               IF ~values[i].finite THEN Quotient("id", 1, 1)
               ELSE IF Abs(range) < NORM_EPS THEN Quotient("id", 1, 2)
               ELSE IF direction = "low" THEN Quotient("id", values[i].v - scale.min, range)
               ELSE Quotient("id", range - (values[i].v - scale.min), range)]
       ELSE [i \in DOMAIN values |->
               IF ~values[i].finite THEN Quotient("id", 1, 1)
               ELSE LET num == 100 * values[i].v - scale.median
                        den == Max2(scale.iqr, 100 * NORM_EPS)
                    IN IF direction = "low" THEN Quotient("sigmoid", num, den)
                       ELSE Quotient("sigmoid", -num, den)]

\* scoreAlgorithms, one metric: the rows' values through getMetric, then normalized
Normalize ==
    /\ nmResult = <<>>
    /\ nmResult' = << robustNormalizeMetric([i \in DOMAIN nmInput.rows |->
                                                getMetric(nmInput.rows[i])],
                                            nmInput.direction) >>
    /\ UNCHANGED nmInput

(***************************************************************************)
(* mergeSegNodes on the nodes of bit windows: lib/dsa/segStreak.ts          *)
(***************************************************************************)
MaxMergeBits == 3   \* a merged node stands for a window of up to MaxMergeBits bits

\* the node a tree holds for a window: its leaves merged from left to right
RECURSIVE NodeOf(_)
NodeOf(bits) ==
    IF bits = <<>> THEN EMPTY_NODE
    ELSE mergeSegNodes(NodeOf(SubSeq(bits, 1, Len(bits) - 1)), makeLeaf(bits[Len(bits)]))

\* the nodes of windows a, b, c merged in both orders and both groupings
MergeNodes ==
    /\ mgResult = <<>>
    /\ LET a == NodeOf(mgInput[1])
           b == NodeOf(mgInput[2])
           c == NodeOf(mgInput[3])
       IN mgResult' = << [ ab |-> mergeSegNodes(a, b),
                           ba |-> mergeSegNodes(b, a),
                           ab_c |-> mergeSegNodes(mergeSegNodes(a, b), c),
                           a_bc |-> mergeSegNodes(a, mergeSegNodes(b, c)) ] >>
    /\ UNCHANGED mgInput

(***************************************************************************)
(* Process states of the shown state: frontend/src/lib/sim/                 *)
(* deriveProcessStates.ts, called by the page on the live snapshot or on    *)
(* its replay view (app/page.tsx 222-245).  A memory-timeline token         *)
(* "FAULT:P2:..." is the record of its parts, [kind |-> "FAULT", pid |->    *)
(* "P2"]; pids carry no surrounding blanks, so trim() is the identity.      *)
(***************************************************************************)
MaxDvTime == 3      \* ticks recorded in the live snapshot
DvPids == <<"P1", "P2">>

MemToken(kind, pid) == [kind |-> kind, pid |-> pid]

\* the state of the process that is not on the CPU
OtherStates == {"NEW", "READY", "WAITING_IO", "WAITING_MEM", "DONE"}

\* SimulatorState (types.ts 122-143) after the ticks of `gantt`, whose last
\* tick ran the process still on the CPU; the other process is in state `other`
\* and sits in the queue that goes with that state
RunSnapshot(gantt, other) ==
    LET T == Len(gantt)
        run == gantt[T]
        oth == IF run = DvPids[1] THEN DvPids[2] ELSE DvPids[1]
        memTl == [i \in 1..T |-> IF i = T /\ other = "WAITING_MEM"
                                 THEN MemToken("FAULT", oth)
                                 ELSE MemToken("IDLE", "")]
    IN [ time |-> T,
         running |-> run,
         ready_queue |-> IF other = "READY" THEN <<oth>> ELSE <<>>,
         io_active |-> IF other = "WAITING_IO" THEN oth ELSE "IDLE",
         io_queue |-> <<>>,
         gantt |-> gantt,
         io_gantt |-> [i \in 1..T |-> IF i = T /\ other = "WAITING_IO" THEN oth ELSE "IDLE"],
         mem_gantt |-> memTl,
         completed |-> IF other = "DONE" THEN <<oth>> ELSE <<>>,
         per_process |-> IF other = "DONE" THEN <<oth>> ELSE <<>>,
         processes |-> [i \in 1..2 |-> [pid |-> DvPids[i],
                                        state |-> IF DvPids[i] = run THEN "RUNNING"
                                                  ELSE other]],
         event_log |-> <<>>,
         memory |-> [mem_gantt |-> memTl, recent_steps |-> <<>>] ]

RunSnapshots ==
    { RunSnapshot(g, other) :
        g \in {h \in SeqsUpTo({"P1", "P2", "IDLE"}, MaxDvTime) :
                   Len(h) > 0 /\ h[Len(h)] # "IDLE"},
        other \in OtherStates }

VALID_STATES == {"NEW", "READY", "RUNNING", "WAITING_IO", "WAITING_MEM", "DONE"}

isValidState(value) == value \in VALID_STATES

\* the values that are a pid: not empty, not "IDLE"
pidList(values) == {values[i] : i \in {j \in DOMAIN values : values[j] \notin {"", "IDLE"}}}

deriveProcessStates(state) ==
    LET rows == state.processes
        named == {i \in DOMAIN rows : rows[i].pid # ""}
        rowOf(pid) == rows[CHOOSE i \in named :
                              /\ rows[i].pid = pid
                              /\ \A j \in named : rows[j].pid = pid => j <= i]
        allPids == {rows[i].pid : i \in named}
                   \cup pidList(state.per_process)
                   \cup pidList(<<state.running, state.io_active>>)
                   \cup pidList(state.ready_queue)
                   \cup pidList(state.io_queue)
                   \cup pidList(state.completed)
        \* process rows, then "NEW" for every pid without a state
        out1 == [pid \in allPids |->
                    IF pid \in {rows[i].pid : i \in named} /\ isValidState(rowOf(pid).state)
                    THEN rowOf(pid).state ELSE "NEW"]
        out2 == [pid \in allPids |->
                    IF pid \in pidList(state.completed) THEN "DONE" ELSE out1[pid]]
        out3 == [pid \in allPids |->
                    IF pid = state.running /\ pid \notin {"", "IDLE"} THEN "RUNNING"
                    ELSE out2[pid]]
        ioWaitSet == pidList(<<state.io_active>>) \cup pidList(state.io_queue)
        out4 == [pid \in allPids |->
                    IF pid \in ioWaitSet /\ out3[pid] \notin {"RUNNING", "DONE"}
                    THEN "WAITING_IO" ELSE out3[pid]]
        out5 == [pid \in allPids |->
                    IF /\ pid \in pidList(state.ready_queue)
                       /\ out4[pid] \notin {"RUNNING", "DONE", "WAITING_IO"}
                    THEN "READY" ELSE out4[pid]]
        out6 == [pid \in allPids |->
                    IF /\ \E i \in named : rows[i].pid = pid /\ rows[i].state = "WAITING_MEM"
                       /\ out5[pid] # "DONE"
                    THEN "WAITING_MEM" ELSE out5[pid]]
        last == IF Len(state.mem_gantt) > 0 THEN state.mem_gantt[Len(state.mem_gantt)]
                ELSE MemToken("", "")
    IN [pid \in allPids |->
           IF /\ last.kind = "FAULT" /\ pid = last.pid /\ pid # ""
              /\ out6[pid] # "DONE"
           THEN "WAITING_MEM" ELSE out6[pid]]

\* the page: effectiveState is the replay view in replay mode and the live
\* snapshot otherwise; derivedStates are the process states of effectiveState
DeriveStates(isReplay) ==
    \E reqT \in RequestedTs :
        LET effectiveState == IF isReplay THEN getReplayViewState(dvLive, reqT) ELSE dvLive
        IN /\ dvView' = << [ replay |-> isReplay,
                             time |-> effectiveState.time,
                             running |-> effectiveState.running,
                             states |-> deriveProcessStates(effectiveState) ] >>
           /\ UNCHANGED dvLive

(***************************************************************************)
(* Client socket: createSimSocket of frontend/src/lib/replay.ts.  The       *)
(* closure variable ws is shared by connect, close, send and the event      *)
(* handlers of every WebSocket the instance created.  ws is 0 for null and  *)
(* otherwise the position of the socket in skSockets.  The browser delivers *)
(* the open, error and close events of a socket as separate tasks, in any   *)
(* order with respect to the calls.  The status and error handlers are      *)
(* registered (useSimSocket does so before connecting).                     *)
(***************************************************************************)
MaxSockets == 3     \* WebSockets created by one instance
MaxSends == 2       \* payloads transmitted

\* let ws = null; no status reported yet
SimSocketNew == [ws |-> 0, status |-> "disconnected", error |-> "none"]

\* new WebSocket(url): connecting, no close event queued
WebSocketNew == [readyState |-> "CONNECTING", closeDue |-> FALSE]

\* ws.close(): a socket that is connecting or open starts closing, and its
\* close event follows later
WebSocketClose(socket) ==
    IF socket.readyState \in {"CONNECTING", "OPEN"}
    THEN [readyState |-> "CLOSING", closeDue |-> TRUE]
    ELSE socket

\* ws.onclose of every socket: ws = null, whichever socket ws holds
onclose(s, socket) == [s EXCEPT !.ws = 0, !.status = "disconnected"]

\* connect(); the constructor throws when `throws`
Connect(throws) ==
    /\ Len(skSockets) < MaxSockets
    /\ IF sk.ws # 0 /\ skSockets[sk.ws].readyState \in {"OPEN", "CONNECTING"}
       THEN UNCHANGED <<sk, skSockets>>
       ELSE IF throws
            THEN /\ sk' = [ws |-> 0, status |-> "error", error |-> "thrown"]
                 /\ UNCHANGED skSockets
            ELSE /\ skSockets' = Append(skSockets, WebSocketNew)
                 /\ sk' = [ws |-> Len(skSockets) + 1, status |-> "connecting",
                           error |-> "none"]
    /\ UNCHANGED skSent

\* close()
Close ==
    /\ IF sk.ws = 0
       THEN /\ sk' = [sk EXCEPT !.status = "disconnected"]
            /\ UNCHANGED skSockets
       ELSE /\ skSockets' = [skSockets EXCEPT ![sk.ws] = WebSocketClose(@)]
            /\ sk' = [sk EXCEPT !.ws = 0, !.status = "disconnected"]
    /\ UNCHANGED skSent

\* send(payload)
Send ==
    /\ Len(skSent) < MaxSends
    /\ IF sk.ws = 0 \/ skSockets[sk.ws].readyState # "OPEN"
       THEN UNCHANGED skSent
       ELSE skSent' = Append(skSent, sk.ws)
    /\ UNCHANGED <<sk, skSockets>>

\* open event of a connecting socket: ws.onopen
OnOpen(socket) ==
    /\ skSockets[socket].readyState = "CONNECTING"
    /\ skSockets' = [skSockets EXCEPT ![socket].readyState = "OPEN"]
    /\ sk' = [sk EXCEPT !.status = "connected", !.error = "none"]
    /\ UNCHANGED skSent

\* error event: the connection failed or broke; the socket is closed and its
\* close event follows.  ws.onerror
OnError(socket) ==
    /\ skSockets[socket].readyState \in {"CONNECTING", "OPEN"}
    /\ skSockets' = [skSockets EXCEPT ![socket] = [readyState |-> "CLOSED", closeDue |-> TRUE]]
    /\ sk' = [sk EXCEPT !.status = "error", !.error = "unreachable"]
    /\ UNCHANGED skSent

\* close event: the peer closed an open socket, or the close event that is due
\* after close() or after an error.  ws.onclose
OnClose(socket) ==
    /\ skSockets[socket].readyState = "OPEN" \/ skSockets[socket].closeDue
    /\ skSockets' = [skSockets EXCEPT ![socket] = [readyState |-> "CLOSED", closeDue |-> FALSE]]
    /\ sk' = onclose(sk, socket)
    /\ UNCHANGED skSent

(***************************************************************************)
(* Replay store: frontend/src/store/replayStore.ts (useReplayStore).        *)
(* Times and deltas passed to the store are finite numbers, here multiples  *)
(* of 1/Scale; a playback rate is kept as twice its value (0.5, 1, 2, 4).   *)
(***************************************************************************)
MaxReplayMax == 3   \* largest replayMax the page sets

ReplayModes == {"live", "replay"}
PlaybackRates == {1, 2, 4, 8}
StoreTimes == (-Scale)..(Scale * MaxReplayMax + 1)
StoreDeltas == (-Scale * MaxReplayMax)..(Scale * MaxReplayMax)

\* Math.min(value, max), without the lower bound
clampUpper(value, min, max) == Min2(value, max)

\* Math.max(min, Math.min(value, max))
clamp(value, min, max) == Max2(min, Min2(value, max))

ReplayStoreNew ==
    [mode |-> "live", replayT |-> 0, replayMax |-> 0, isPlaying |-> FALSE, playbackRate |-> 2]

setMode(state, mode) ==
    [state EXCEPT !.mode = mode,
                  !.isPlaying = IF mode = "replay" THEN state.isPlaying ELSE FALSE]

setReplayT(state, time) ==
    [state EXCEPT !.replayT = clamp(Floor(time), 0, state.replayMax)]

setReplayMax(state, max) ==
    LET nextMax == Max2(0, Floor(max))
    IN [state EXCEPT !.replayMax = nextMax, !.replayT = clamp(state.replayT, 0, nextMax)]

setPlaying(state, playing) == [state EXCEPT !.isPlaying = playing]

setPlaybackRate(state, rate) == [state EXCEPT !.playbackRate = rate]

stepReplay(state, delta) ==
    [state EXCEPT !.replayT = clamp(state.replayT + Floor(delta), 0, state.replayMax)]

jumpTo(state, time) ==
    [state EXCEPT !.replayT = clamp(Floor(time), 0, state.replayMax)]

SetMode(mode) == rs' = setMode(rs, mode)
SetReplayT(time) == rs' = setReplayT(rs, time)
SetReplayMax(max) == rs' = setReplayMax(rs, max)
SetPlaying(playing) == rs' = setPlaying(rs, playing)
SetPlaybackRate(rate) == rs' = setPlaybackRate(rs, rate)
StepReplay(delta) == rs' = stepReplay(rs, delta)
JumpTo(time) == rs' = jumpTo(rs, time)

(***************************************************************************)
(* Replay playback: the effects of app/simulate/page.tsx that move the      *)
(* replay cursor of the store.  The live snapshot is fixed: liveMax is its  *)
(* getReplayMax and its time, tickMs its tick_ms.  A frame callback sees    *)
(* the playbackRate and replayMax of the render its effect ran in (deps);   *)
(* replayTRef follows replayT by an effect of its own, which React runs     *)
(* some time after the render.  A store update renders the page at once    *)
(* (useSyncExternalStore); the playback effect of that render runs later,   *)
(* and at the latest before the next render.  Animation-frame timestamps    *)
(* are kept as the time since the previous frame.  While playback runs the  *)
(* user leaves the controls alone: every control but the rate selector      *)
(* pauses playback.                                                         *)
(***************************************************************************)
MaxLiveMax == 3                 \* getReplayMax of the live snapshot
TickMsValues == {16, 40}        \* liveState.tick_ms
FrameDts == {4, 16, 40}         \* milliseconds between two animation frames
MinStepMs == 8

\* [mode, replayPlaying, playbackRate, replayMax] of the effect's dependency list
PlaybackDeps(store) ==
    [mode |-> store.mode, playing |-> store.isPlaying,
     playbackRate |-> store.playbackRate, replayMax |-> store.replayMax]

\* the store after the mount effect setReplayMax(getReplayMax(liveState))
MountedStore(liveMax) == setReplayMax(ReplayStoreNew, Scale * liveMax)

\* refs after mount: no frame requested, replayLastTsRef null, accumulator 0
PlaybackNew(liveMax, tickMs) ==
    [ liveMax |-> liveMax, tickMs |-> tickMs,
      replayTRef |-> 0, raf |-> FALSE, lastTs |-> FALSE, accum |-> 0,
      deps |-> PlaybackDeps(MountedStore(liveMax)), effectPending |-> FALSE ]

\* Math.max(8, liveState.tick_ms / playbackRate), the rate being kept doubled
stepIntervalMs(tickMs, playbackRate) == Max2(MinStepMs, (2 * tickMs) \div playbackRate)

\* a cursor that does not advance
nextTStuck(replayTRef, steps, replayMax) == Min2(replayTRef, replayMax)

\* Math.min(replayTRef.current + steps, replayMax)
nextT(replayTRef, steps, replayMax) == Min2(replayTRef + steps, replayMax)

\* the playback effect of the render of `store`: the cleanup of the last run
\* (or the paused branch) cancels the frame and clears the refs; in replay
\* mode with playback on, a frame is requested
playbackEffect(p, store) ==
    [p EXCEPT !.deps = PlaybackDeps(store),
              !.raf = (store.mode = "replay" /\ store.isPlaying),
              !.lastTs = FALSE,
              !.accum = 0,
              !.effectPending = FALSE]

\* a store update and its render: a playback effect still pending runs first,
\* and the new render's playback effect is pending when a dependency changed
Render(p, store, updated) ==
    LET flushed == IF p.effectPending THEN playbackEffect(p, store) ELSE p
    IN [flushed EXCEPT !.effectPending = PlaybackDeps(updated) # PlaybackDeps(store)]

\* handleModeChange(nextMode)
HandleModeChange(nextMode) ==
    /\ ~rs.isPlaying
    /\ LET max == pb.liveMax
           time == pb.liveMax
       IN rs' = IF nextMode = "replay"
                THEN setMode(jumpTo(setReplayMax(setPlaying(rs, FALSE), Scale * max),
                                    Scale * Min2(time, max)),
                             nextMode)
                ELSE setMode(setPlaying(rs, FALSE), nextMode)
    /\ pb' = Render(pb, rs, rs')

\* onScrub(t): pause, then jump
OnScrub(t) ==
    /\ rs.mode = "replay" /\ ~rs.isPlaying
    /\ rs' = jumpTo(setPlaying(rs, FALSE), Scale * t)
    /\ pb' = Render(pb, rs, rs')

\* onPlayPause on a paused replay: setReplayPlaying(!replayPlaying)
OnPlayPause ==
    /\ rs.mode = "replay" /\ ~rs.isPlaying
    /\ rs' = setPlaying(rs, ~rs.isPlaying)
    /\ pb' = Render(pb, rs, rs')

\* onRateChange on a paused replay
OnRateChange(rate) ==
    /\ rs.mode = "replay" /\ ~rs.isPlaying
    /\ rs' = setPlaybackRate(rs, rate)
    /\ pb' = Render(pb, rs, rs')

\* useEffect(() => { replayTRef.current = replayT }, [replayT])
RefSync ==
    /\ pb.replayTRef # rs.replayT
    /\ pb' = [pb EXCEPT !.replayTRef = rs.replayT]
    /\ UNCHANGED rs

\* the pending playback effect runs
PlaybackEffect ==
    /\ pb.effectPending
    /\ pb' = playbackEffect(pb, rs)
    /\ UNCHANGED rs

\* the requested animation frame fires, dt milliseconds after the last one
Frame(dt) ==
    /\ pb.raf
    /\ LET elapsed == IF pb.lastTs THEN dt ELSE 0
           accum == pb.accum + elapsed
           interval == stepIntervalMs(pb.tickMs, pb.deps.playbackRate)
           steps == accum \div interval
           next == nextT(pb.replayTRef, steps, pb.deps.replayMax)
       IN IF accum >= interval
          THEN /\ rs' = IF next >= pb.deps.replayMax
                        THEN setPlaying(jumpTo(rs, Scale * next), FALSE)
                        ELSE jumpTo(rs, Scale * next)
               /\ pb' = Render([pb EXCEPT !.lastTs = TRUE,
                                          !.accum = accum - steps * interval,
                                          !.raf = next < pb.deps.replayMax],
                               rs, rs')
          ELSE /\ pb' = [pb EXCEPT !.lastTs = TRUE, !.accum = accum]
               /\ UNCHANGED rs

\* workloads with I/O bursts (scenario S4 among them)
MaxIoArrival == 1
MaxIoTicks == 10
IoBurstShapes == { <<3, 2, 2>>, <<2>>, <<1, 3, 1>> }

AddIoProcess ==
    \E pid \in Pids \ DOMAIN sched.procs, arrival \in 0..MaxIoArrival,
       bursts \in IoBurstShapes :
        /\ arrival >= sched.time
        /\ sched' = add_process(sched, pid, arrival, DefaultPriority, bursts)

IoTick ==
    /\ sched.time < MaxIoTicks
    /\ sched' = tick_step(sched)

\* workloads with priorities (scenario S6 among them)
MaxPolicyTicks == 12
PolicyArrivals == {0, 3}
PriorityLevels == {1, 5}
PolicyBurstShapes == { <<8>>, <<4>>, <<1, 2, 1>> }

AddPolicyProcess ==
    \E pid \in Pids \ DOMAIN sched.procs, arrival \in PolicyArrivals,
       priority \in PriorityLevels, bursts \in PolicyBurstShapes :
        /\ arrival >= sched.time
        /\ sched' = add_process(sched, pid, arrival, priority, bursts)

PolicyTick ==
    /\ sched.time < MaxPolicyTicks
    /\ sched' = tick_step(sched)

(***************************************************************************)
(* Specifications                                                          *)
(***************************************************************************)
\* a live snapshot has been received; no view has been asked for yet
InitReplay ==
    /\ liveState \in Snapshots
    /\ requestedT = 0
    /\ replayView = <<>>
    /\ fw = FenwickNew(0) /\ fwElems = <<>>
    /\ seg = SegNew(<<>>) /\ segBits = <<>>
    /\ ta = buildTimelineAnalytics(<<>>)
    /\ sched = SchedulerNew("FCFS", DefaultQuantum)
    /\ wsSession = SessionNew /\ wsConns = [c \in Conns |-> ConnNew]
    /\ pgInput = [frames |-> 1, refs |-> <<>>] /\ pgResult = <<>>
    /\ prInput = <<>> /\ prResult = <<>>
    /\ evLog = <<>> /\ evResult = <<>>
    /\ form = FormNew /\ submitted = <<>>
    /\ nmInput = [rows |-> <<>>, direction |-> "low"] /\ nmResult = <<>>
    /\ mgInput = <<>> /\ mgResult = <<>>
    /\ dvLive = RunSnapshot(<<"P1">>, "NEW") /\ dvView = <<>>
    /\ sk = SimSocketNew /\ skSockets = <<>> /\ skSent = <<>>
    /\ rs = ReplayStoreNew
    /\ pb = PlaybackNew(1, 16)

ReplayNext == ReplayRequest /\ UNCHANGED <<fenwickVars, segVars, taVars, schedVars, wsVars, pgVars, prVars, evVars, fmVars, nmVars, mgVars, dvVars, skVars, rsVars, pbVars>>
SpecReplay == InitReplay /\ [][ReplayNext]_vars

\* new Fenwick(n)
InitFenwick ==
    /\ \E n \in 0..MaxFwInit :
          /\ fw = FenwickNew(n)
          /\ fwElems = [i \in 1..n |-> 0]
    /\ liveState = NoSnapshot /\ requestedT = 0 /\ replayView = <<>>
    /\ seg = SegNew(<<>>) /\ segBits = <<>>
    /\ ta = buildTimelineAnalytics(<<>>)
    /\ sched = SchedulerNew("FCFS", DefaultQuantum)
    /\ wsSession = SessionNew /\ wsConns = [c \in Conns |-> ConnNew]
    /\ pgInput = [frames |-> 1, refs |-> <<>>] /\ pgResult = <<>>
    /\ prInput = <<>> /\ prResult = <<>>
    /\ evLog = <<>> /\ evResult = <<>>
    /\ form = FormNew /\ submitted = <<>>
    /\ nmInput = [rows |-> <<>>, direction |-> "low"] /\ nmResult = <<>>
    /\ mgInput = <<>> /\ mgResult = <<>>
    /\ dvLive = RunSnapshot(<<"P1">>, "NEW") /\ dvView = <<>>
    /\ sk = SimSocketNew /\ skSockets = <<>> /\ skSent = <<>>
    /\ rs = ReplayStoreNew
    /\ pb = PlaybackNew(1, 16)

FenwickNext ==
    \/ FwAppend /\ UNCHANGED <<replayVars, segVars, taVars, schedVars, wsVars, pgVars, prVars, evVars, fmVars, nmVars, mgVars, dvVars, skVars, rsVars, pbVars>>
    \/ FwAdd /\ UNCHANGED <<replayVars, segVars, taVars, schedVars, wsVars, pgVars, prVars, evVars, fmVars, nmVars, mgVars, dvVars, skVars, rsVars, pbVars>>
    \/ FwSet /\ UNCHANGED <<replayVars, segVars, taVars, schedVars, wsVars, pgVars, prVars, evVars, fmVars, nmVars, mgVars, dvVars, skVars, rsVars, pbVars>>
SpecFenwick == InitFenwick /\ [][FenwickNext]_vars

\* new SegStreak(values)
InitSeg ==
    /\ \E values \in SeqsUpTo(SegVals, MaxSegInit) :
          /\ seg = SegNew(values)
          /\ segBits = [i \in 1..Len(values) |-> ToBit(values[i])]
    /\ liveState = NoSnapshot /\ requestedT = 0 /\ replayView = <<>>
    /\ fw = FenwickNew(0) /\ fwElems = <<>>
    /\ ta = buildTimelineAnalytics(<<>>)
    /\ sched = SchedulerNew("FCFS", DefaultQuantum)
    /\ wsSession = SessionNew /\ wsConns = [c \in Conns |-> ConnNew]
    /\ pgInput = [frames |-> 1, refs |-> <<>>] /\ pgResult = <<>>
    /\ prInput = <<>> /\ prResult = <<>>
    /\ evLog = <<>> /\ evResult = <<>>
    /\ form = FormNew /\ submitted = <<>>
    /\ nmInput = [rows |-> <<>>, direction |-> "low"] /\ nmResult = <<>>
    /\ mgInput = <<>> /\ mgResult = <<>>
    /\ dvLive = RunSnapshot(<<"P1">>, "NEW") /\ dvView = <<>>
    /\ sk = SimSocketNew /\ skSockets = <<>> /\ skSent = <<>>
    /\ rs = ReplayStoreNew
    /\ pb = PlaybackNew(1, 16)

SegNext ==
    \/ SegAppendStep /\ UNCHANGED <<replayVars, fenwickVars, taVars, schedVars, wsVars, pgVars, prVars, evVars, fmVars, nmVars, mgVars, dvVars, skVars, rsVars, pbVars>>
    \/ SegUpdateStep /\ UNCHANGED <<replayVars, fenwickVars, taVars, schedVars, wsVars, pgVars, prVars, evVars, fmVars, nmVars, mgVars, dvVars, skVars, rsVars, pbVars>>
SpecSeg == InitSeg /\ [][SegNext]_vars

\* buildTimelineAnalytics(gantt)
InitAnalytics ==
    /\ \E gantt \in Gantts : ta = buildTimelineAnalytics(gantt)
    /\ liveState = NoSnapshot /\ requestedT = 0 /\ replayView = <<>>
    /\ fw = FenwickNew(0) /\ fwElems = <<>>
    /\ seg = SegNew(<<>>) /\ segBits = <<>>
    /\ sched = SchedulerNew("FCFS", DefaultQuantum)
    /\ wsSession = SessionNew /\ wsConns = [c \in Conns |-> ConnNew]
    /\ pgInput = [frames |-> 1, refs |-> <<>>] /\ pgResult = <<>>
    /\ prInput = <<>> /\ prResult = <<>>
    /\ evLog = <<>> /\ evResult = <<>>
    /\ form = FormNew /\ submitted = <<>>
    /\ nmInput = [rows |-> <<>>, direction |-> "low"] /\ nmResult = <<>>
    /\ mgInput = <<>> /\ mgResult = <<>>
    /\ dvLive = RunSnapshot(<<"P1">>, "NEW") /\ dvView = <<>>
    /\ sk = SimSocketNew /\ skSockets = <<>> /\ skSent = <<>>
    /\ rs = ReplayStoreNew
    /\ pb = PlaybackNew(1, 16)

AnalyticsNext == Sync /\ UNCHANGED <<replayVars, fenwickVars, segVars, schedVars, wsVars, pgVars, prVars, evVars, fmVars, nmVars, mgVars, dvVars, skVars, rsVars, pbVars>>
SpecAnalytics == InitAnalytics /\ [][AnalyticsNext]_vars

\* init message: FCFS, or RR with its quantum; processes are added afterwards
InitSched ==
    /\ \/ sched = SchedulerNew("FCFS", DefaultQuantum)
       \/ \E q \in 1..MaxQuantum : sched = SchedulerNew("RR", q)
    /\ liveState = NoSnapshot /\ requestedT = 0 /\ replayView = <<>>
    /\ fw = FenwickNew(0) /\ fwElems = <<>>
    /\ seg = SegNew(<<>>) /\ segBits = <<>>
    /\ ta = buildTimelineAnalytics(<<>>)
    /\ wsSession = SessionNew /\ wsConns = [c \in Conns |-> ConnNew]
    /\ pgInput = [frames |-> 1, refs |-> <<>>] /\ pgResult = <<>>
    /\ prInput = <<>> /\ prResult = <<>>
    /\ evLog = <<>> /\ evResult = <<>>
    /\ form = FormNew /\ submitted = <<>>
    /\ nmInput = [rows |-> <<>>, direction |-> "low"] /\ nmResult = <<>>
    /\ mgInput = <<>> /\ mgResult = <<>>
    /\ dvLive = RunSnapshot(<<"P1">>, "NEW") /\ dvView = <<>>
    /\ sk = SimSocketNew /\ skSockets = <<>> /\ skSent = <<>>
    /\ rs = ReplayStoreNew
    /\ pb = PlaybackNew(1, 16)

SchedNext ==
    \/ AddProcess /\ UNCHANGED <<replayVars, fenwickVars, segVars, taVars, wsVars, pgVars, prVars, evVars, fmVars, nmVars, mgVars, dvVars, skVars, rsVars, pbVars>>
    \/ Tick /\ UNCHANGED <<replayVars, fenwickVars, segVars, taVars, wsVars, pgVars, prVars, evVars, fmVars, nmVars, mgVars, dvVars, skVars, rsVars, pbVars>>
SpecSched == InitSched /\ [][SchedNext]_vars

\* init message, FCFS or RR: workloads with I/O bursts
InitIo ==
    /\ sched \in {SchedulerNew("FCFS", DefaultQuantum), SchedulerNew("RR", DefaultQuantum)}
    /\ liveState = NoSnapshot /\ requestedT = 0 /\ replayView = <<>>
    /\ fw = FenwickNew(0) /\ fwElems = <<>>
    /\ seg = SegNew(<<>>) /\ segBits = <<>>
    /\ ta = buildTimelineAnalytics(<<>>)
    /\ wsSession = SessionNew /\ wsConns = [c \in Conns |-> ConnNew]
    /\ pgInput = [frames |-> 1, refs |-> <<>>] /\ pgResult = <<>>
    /\ prInput = <<>> /\ prResult = <<>>
    /\ evLog = <<>> /\ evResult = <<>>
    /\ form = FormNew /\ submitted = <<>>
    /\ nmInput = [rows |-> <<>>, direction |-> "low"] /\ nmResult = <<>>
    /\ mgInput = <<>> /\ mgResult = <<>>
    /\ dvLive = RunSnapshot(<<"P1">>, "NEW") /\ dvView = <<>>
    /\ sk = SimSocketNew /\ skSockets = <<>> /\ skSent = <<>>
    /\ rs = ReplayStoreNew
    /\ pb = PlaybackNew(1, 16)

IoNext ==
    \/ AddIoProcess /\ UNCHANGED <<replayVars, fenwickVars, segVars, taVars, wsVars, pgVars, prVars, evVars, fmVars, nmVars, mgVars, dvVars, skVars, rsVars, pbVars>>
    \/ IoTick /\ UNCHANGED <<replayVars, fenwickVars, segVars, taVars, wsVars, pgVars, prVars, evVars, fmVars, nmVars, mgVars, dvVars, skVars, rsVars, pbVars>>
SpecIo == InitIo /\ [][IoNext]_vars

\* init message: preemptive or non-preemptive priority, or RR
InitPolicy ==
    /\ sched \in {SchedulerNew(a, DefaultQuantum) : a \in {"PRIORITY_P", "PRIORITY_NP", "RR"}}
    /\ liveState = NoSnapshot /\ requestedT = 0 /\ replayView = <<>>
    /\ fw = FenwickNew(0) /\ fwElems = <<>>
    /\ seg = SegNew(<<>>) /\ segBits = <<>>
    /\ ta = buildTimelineAnalytics(<<>>)
    /\ wsSession = SessionNew /\ wsConns = [c \in Conns |-> ConnNew]
    /\ pgInput = [frames |-> 1, refs |-> <<>>] /\ pgResult = <<>>
    /\ prInput = <<>> /\ prResult = <<>>
    /\ evLog = <<>> /\ evResult = <<>>
    /\ form = FormNew /\ submitted = <<>>
    /\ nmInput = [rows |-> <<>>, direction |-> "low"] /\ nmResult = <<>>
    /\ mgInput = <<>> /\ mgResult = <<>>
    /\ dvLive = RunSnapshot(<<"P1">>, "NEW") /\ dvView = <<>>
    /\ sk = SimSocketNew /\ skSockets = <<>> /\ skSent = <<>>
    /\ rs = ReplayStoreNew
    /\ pb = PlaybackNew(1, 16)

PolicyNext ==
    \/ AddPolicyProcess /\ UNCHANGED <<replayVars, fenwickVars, segVars, taVars, wsVars, pgVars, prVars, evVars, fmVars, nmVars, mgVars, dvVars, skVars, rsVars, pbVars>>
    \/ PolicyTick /\ UNCHANGED <<replayVars, fenwickVars, segVars, taVars, wsVars, pgVars, prVars, evVars, fmVars, nmVars, mgVars, dvVars, skVars, rsVars, pbVars>>
SpecPolicy == InitPolicy /\ [][PolicyNext]_vars

\* the server is up, no websocket is connected yet
InitWs ==
    /\ liveState = NoSnapshot /\ requestedT = 0 /\ replayView = <<>>
    /\ fw = FenwickNew(0) /\ fwElems = <<>>
    /\ seg = SegNew(<<>>) /\ segBits = <<>>
    /\ ta = buildTimelineAnalytics(<<>>)
    /\ sched = SchedulerNew("FCFS", DefaultQuantum)
    /\ wsSession = SessionNew /\ wsConns = [c \in Conns |-> ConnNew]
    /\ pgInput = [frames |-> 1, refs |-> <<>>] /\ pgResult = <<>>
    /\ prInput = <<>> /\ prResult = <<>>
    /\ evLog = <<>> /\ evResult = <<>>
    /\ form = FormNew /\ submitted = <<>>
    /\ nmInput = [rows |-> <<>>, direction |-> "low"] /\ nmResult = <<>>
    /\ mgInput = <<>> /\ mgResult = <<>>
    /\ dvLive = RunSnapshot(<<"P1">>, "NEW") /\ dvView = <<>>
    /\ sk = SimSocketNew /\ skSockets = <<>> /\ skSent = <<>>
    /\ rs = ReplayStoreNew
    /\ pb = PlaybackNew(1, 16)

WsNext ==
    \/ \E c \in Conns :
          /\ WsAccept(c)
          /\ UNCHANGED <<replayVars, fenwickVars, segVars, taVars, schedVars, pgVars, prVars, evVars, fmVars, nmVars, mgVars, dvVars, skVars, rsVars, pbVars>>
    \/ \E c \in Conns :
          /\ WsGreet(c)
          /\ UNCHANGED <<replayVars, fenwickVars, segVars, taVars, schedVars, pgVars, prVars, evVars, fmVars, nmVars, mgVars, dvVars, skVars, rsVars, pbVars>>
    \/ \E c \in Conns :
          /\ WsReceive(c)
          /\ UNCHANGED <<replayVars, fenwickVars, segVars, taVars, schedVars, pgVars, prVars, evVars, fmVars, nmVars, mgVars, dvVars, skVars, rsVars, pbVars>>
    \/ \E c \in Conns :
          /\ WsSend(c)
          /\ UNCHANGED <<replayVars, fenwickVars, segVars, taVars, schedVars, pgVars, prVars, evVars, fmVars, nmVars, mgVars, dvVars, skVars, rsVars, pbVars>>
SpecWs == InitWs /\ [][WsNext]_vars

\* a frame count and a reference string have been entered
InitPaging ==
    /\ pgInput \in [frames : 0..MaxFrames, refs : RefStrings]
    /\ pgResult = <<>>
    /\ liveState = NoSnapshot /\ requestedT = 0 /\ replayView = <<>>
    /\ fw = FenwickNew(0) /\ fwElems = <<>>
    /\ seg = SegNew(<<>>) /\ segBits = <<>>
    /\ ta = buildTimelineAnalytics(<<>>)
    /\ sched = SchedulerNew("FCFS", DefaultQuantum)
    /\ wsSession = SessionNew /\ wsConns = [c \in Conns |-> ConnNew]
    /\ prInput = <<>> /\ prResult = <<>>
    /\ evLog = <<>> /\ evResult = <<>>
    /\ form = FormNew /\ submitted = <<>>
    /\ nmInput = [rows |-> <<>>, direction |-> "low"] /\ nmResult = <<>>
    /\ mgInput = <<>> /\ mgResult = <<>>
    /\ dvLive = RunSnapshot(<<"P1">>, "NEW") /\ dvView = <<>>
    /\ sk = SimSocketNew /\ skSockets = <<>> /\ skSent = <<>>
    /\ rs = ReplayStoreNew
    /\ pb = PlaybackNew(1, 16)

PagingNext ==
    \/ RunLRU /\ UNCHANGED <<replayVars, fenwickVars, segVars, taVars, schedVars, wsVars, prVars, evVars, fmVars, nmVars, mgVars, dvVars, skVars, rsVars, pbVars>>
    \/ RunLFU /\ UNCHANGED <<replayVars, fenwickVars, segVars, taVars, schedVars, wsVars, prVars, evVars, fmVars, nmVars, mgVars, dvVars, skVars, rsVars, pbVars>>
    \/ RunFIFO /\ UNCHANGED <<replayVars, fenwickVars, segVars, taVars, schedVars, wsVars, prVars, evVars, fmVars, nmVars, mgVars, dvVars, skVars, rsVars, pbVars>>
    \/ RunOPT /\ UNCHANGED <<replayVars, fenwickVars, segVars, taVars, schedVars, wsVars, prVars, evVars, fmVars, nmVars, mgVars, dvVars, skVars, rsVars, pbVars>>
SpecPaging == InitPaging /\ [][PagingNext]_vars

\* the comparator has its rows
InitPareto ==
    /\ prInput \in SeqsUpTo(Rows, MaxRows)
    /\ prResult = <<>>
    /\ liveState = NoSnapshot /\ requestedT = 0 /\ replayView = <<>>
    /\ fw = FenwickNew(0) /\ fwElems = <<>>
    /\ seg = SegNew(<<>>) /\ segBits = <<>>
    /\ ta = buildTimelineAnalytics(<<>>)
    /\ sched = SchedulerNew("FCFS", DefaultQuantum)
    /\ wsSession = SessionNew /\ wsConns = [c \in Conns |-> ConnNew]
    /\ pgInput = [frames |-> 1, refs |-> <<>>] /\ pgResult = <<>>
    /\ evLog = <<>> /\ evResult = <<>>
    /\ form = FormNew /\ submitted = <<>>
    /\ nmInput = [rows |-> <<>>, direction |-> "low"] /\ nmResult = <<>>
    /\ mgInput = <<>> /\ mgResult = <<>>
    /\ dvLive = RunSnapshot(<<"P1">>, "NEW") /\ dvView = <<>>
    /\ sk = SimSocketNew /\ skSockets = <<>> /\ skSent = <<>>
    /\ rs = ReplayStoreNew
    /\ pb = PlaybackNew(1, 16)

ParetoNext ==
    RunPareto /\ UNCHANGED <<replayVars, fenwickVars, segVars, taVars, schedVars, wsVars, pgVars, evVars, fmVars, nmVars, mgVars, dvVars, skVars, rsVars, pbVars>>
SpecPareto == InitPareto /\ [][ParetoNext]_vars

\* the backend has written its event log
InitEvents ==
    /\ evLog \in SeqsUpTo(LoggedLines, MaxLogLines)
    /\ evResult = <<>>
    /\ liveState = NoSnapshot /\ requestedT = 0 /\ replayView = <<>>
    /\ fw = FenwickNew(0) /\ fwElems = <<>>
    /\ seg = SegNew(<<>>) /\ segBits = <<>>
    /\ ta = buildTimelineAnalytics(<<>>)
    /\ sched = SchedulerNew("FCFS", DefaultQuantum)
    /\ wsSession = SessionNew /\ wsConns = [c \in Conns |-> ConnNew]
    /\ pgInput = [frames |-> 1, refs |-> <<>>] /\ pgResult = <<>>
    /\ prInput = <<>> /\ prResult = <<>>
    /\ form = FormNew /\ submitted = <<>>
    /\ nmInput = [rows |-> <<>>, direction |-> "low"] /\ nmResult = <<>>
    /\ mgInput = <<>> /\ mgResult = <<>>
    /\ dvLive = RunSnapshot(<<"P1">>, "NEW") /\ dvView = <<>>
    /\ sk = SimSocketNew /\ skSockets = <<>> /\ skSent = <<>>
    /\ rs = ReplayStoreNew
    /\ pb = PlaybackNew(1, 16)

EventsNext ==
    (\E fromIndex \in 0..Len(evLog) : ParseSimEvents(fromIndex))
        /\ UNCHANGED <<replayVars, fenwickVars, segVars, taVars, schedVars, wsVars, pgVars, prVars, fmVars, nmVars, mgVars, dvVars, skVars, rsVars, pbVars>>
SpecEvents == InitEvents /\ [][EventsNext]_vars

InitForm ==
    /\ form = FormNew
    /\ submitted = <<>>
    /\ liveState = NoSnapshot /\ requestedT = 0 /\ replayView = <<>>
    /\ fw = FenwickNew(0) /\ fwElems = <<>>
    /\ seg = SegNew(<<>>) /\ segBits = <<>>
    /\ ta = buildTimelineAnalytics(<<>>)
    /\ sched = SchedulerNew("FCFS", DefaultQuantum)
    /\ wsSession = SessionNew /\ wsConns = [c \in Conns |-> ConnNew]
    /\ pgInput = [frames |-> 1, refs |-> <<>>] /\ pgResult = <<>>
    /\ prInput = <<>> /\ prResult = <<>>
    /\ evLog = <<>> /\ evResult = <<>>
    /\ nmInput = [rows |-> <<>>, direction |-> "low"] /\ nmResult = <<>>
    /\ mgInput = <<>> /\ mgResult = <<>>
    /\ dvLive = RunSnapshot(<<"P1">>, "NEW") /\ dvView = <<>>
    /\ sk = SimSocketNew /\ skSockets = <<>> /\ skSent = <<>>
    /\ rs = ReplayStoreNew
    /\ pb = PlaybackNew(1, 16)

FormNext ==
    (\/ \E pid \in FormPids : SetPid(pid)
     \/ \E index \in 0..(Len(form.bursts) - 1), text \in BurstTexts : UpdateBurst(index, text)
     \/ \E index \in 0..(Len(form.bursts) - 1) : RemoveBurst(index)
     \/ \E kind \in {"CPU", "IO"} : AddBurst(kind)
     \/ \E ok \in BOOLEAN : Submit(ok))
        /\ UNCHANGED <<replayVars, fenwickVars, segVars, taVars, schedVars, wsVars, pgVars, prVars, evVars, nmVars, mgVars, dvVars, skVars, rsVars, pbVars>>
SpecForm == InitForm /\ [][FormNext]_vars

InitNormalize ==
    /\ nmInput \in [rows : SeqsUpTo(RawMetrics, MaxCohort), direction : {"low", "high"}]
    /\ nmResult = <<>>
    /\ liveState = NoSnapshot /\ requestedT = 0 /\ replayView = <<>>
    /\ fw = FenwickNew(0) /\ fwElems = <<>>
    /\ seg = SegNew(<<>>) /\ segBits = <<>>
    /\ ta = buildTimelineAnalytics(<<>>)
    /\ sched = SchedulerNew("FCFS", DefaultQuantum)
    /\ wsSession = SessionNew /\ wsConns = [c \in Conns |-> ConnNew]
    /\ pgInput = [frames |-> 1, refs |-> <<>>] /\ pgResult = <<>>
    /\ prInput = <<>> /\ prResult = <<>>
    /\ evLog = <<>> /\ evResult = <<>>
    /\ form = FormNew /\ submitted = <<>>
    /\ mgInput = <<>> /\ mgResult = <<>>
    /\ dvLive = RunSnapshot(<<"P1">>, "NEW") /\ dvView = <<>>
    /\ sk = SimSocketNew /\ skSockets = <<>> /\ skSent = <<>>
    /\ rs = ReplayStoreNew
    /\ pb = PlaybackNew(1, 16)

NormalizeNext ==
    (Normalize)
        /\ UNCHANGED <<replayVars, fenwickVars, segVars, taVars, schedVars, wsVars, pgVars, prVars, evVars, fmVars, mgVars, dvVars, skVars, rsVars, pbVars>>
SpecNormalize == InitNormalize /\ [][NormalizeNext]_vars

InitMerge ==
    /\ mgInput \in [1..3 -> SeqsUpTo({0, 1}, MaxMergeBits)]
    /\ mgResult = <<>>
    /\ liveState = NoSnapshot /\ requestedT = 0 /\ replayView = <<>>
    /\ fw = FenwickNew(0) /\ fwElems = <<>>
    /\ seg = SegNew(<<>>) /\ segBits = <<>>
    /\ ta = buildTimelineAnalytics(<<>>)
    /\ sched = SchedulerNew("FCFS", DefaultQuantum)
    /\ wsSession = SessionNew /\ wsConns = [c \in Conns |-> ConnNew]
    /\ pgInput = [frames |-> 1, refs |-> <<>>] /\ pgResult = <<>>
    /\ prInput = <<>> /\ prResult = <<>>
    /\ evLog = <<>> /\ evResult = <<>>
    /\ form = FormNew /\ submitted = <<>>
    /\ nmInput = [rows |-> <<>>, direction |-> "low"] /\ nmResult = <<>>
    /\ dvLive = RunSnapshot(<<"P1">>, "NEW") /\ dvView = <<>>
    /\ sk = SimSocketNew /\ skSockets = <<>> /\ skSent = <<>>
    /\ rs = ReplayStoreNew
    /\ pb = PlaybackNew(1, 16)

MergeNext ==
    (MergeNodes)
        /\ UNCHANGED <<replayVars, fenwickVars, segVars, taVars, schedVars, wsVars, pgVars, prVars, evVars, fmVars, nmVars, dvVars, skVars, rsVars, pbVars>>
SpecMerge == InitMerge /\ [][MergeNext]_vars

InitDerive ==
    /\ dvLive \in RunSnapshots
    /\ dvView = <<>>
    /\ liveState = NoSnapshot /\ requestedT = 0 /\ replayView = <<>>
    /\ fw = FenwickNew(0) /\ fwElems = <<>>
    /\ seg = SegNew(<<>>) /\ segBits = <<>>
    /\ ta = buildTimelineAnalytics(<<>>)
    /\ sched = SchedulerNew("FCFS", DefaultQuantum)
    /\ wsSession = SessionNew /\ wsConns = [c \in Conns |-> ConnNew]
    /\ pgInput = [frames |-> 1, refs |-> <<>>] /\ pgResult = <<>>
    /\ prInput = <<>> /\ prResult = <<>>
    /\ evLog = <<>> /\ evResult = <<>>
    /\ form = FormNew /\ submitted = <<>>
    /\ nmInput = [rows |-> <<>>, direction |-> "low"] /\ nmResult = <<>>
    /\ mgInput = <<>> /\ mgResult = <<>>
    /\ sk = SimSocketNew /\ skSockets = <<>> /\ skSent = <<>>
    /\ rs = ReplayStoreNew
    /\ pb = PlaybackNew(1, 16)

DeriveNext ==
    (\/ DeriveStates(TRUE)
     \/ DeriveStates(FALSE))
        /\ UNCHANGED <<replayVars, fenwickVars, segVars, taVars, schedVars, wsVars, pgVars, prVars, evVars, fmVars, nmVars, mgVars, skVars, rsVars, pbVars>>
SpecDerive == InitDerive /\ [][DeriveNext]_vars

InitSocket ==
    /\ sk = SimSocketNew
    /\ skSockets = <<>>
    /\ skSent = <<>>
    /\ liveState = NoSnapshot /\ requestedT = 0 /\ replayView = <<>>
    /\ fw = FenwickNew(0) /\ fwElems = <<>>
    /\ seg = SegNew(<<>>) /\ segBits = <<>>
    /\ ta = buildTimelineAnalytics(<<>>)
    /\ sched = SchedulerNew("FCFS", DefaultQuantum)
    /\ wsSession = SessionNew /\ wsConns = [c \in Conns |-> ConnNew]
    /\ pgInput = [frames |-> 1, refs |-> <<>>] /\ pgResult = <<>>
    /\ prInput = <<>> /\ prResult = <<>>
    /\ evLog = <<>> /\ evResult = <<>>
    /\ form = FormNew /\ submitted = <<>>
    /\ nmInput = [rows |-> <<>>, direction |-> "low"] /\ nmResult = <<>>
    /\ mgInput = <<>> /\ mgResult = <<>>
    /\ dvLive = RunSnapshot(<<"P1">>, "NEW") /\ dvView = <<>>
    /\ rs = ReplayStoreNew
    /\ pb = PlaybackNew(1, 16)

SocketNext ==
    (\/ \E throws \in BOOLEAN : Connect(throws)
     \/ Close
     \/ Send
     \/ \E socket \in DOMAIN skSockets : OnOpen(socket)
     \/ \E socket \in DOMAIN skSockets : OnError(socket)
     \/ \E socket \in DOMAIN skSockets : OnClose(socket))
        /\ UNCHANGED <<replayVars, fenwickVars, segVars, taVars, schedVars, wsVars, pgVars, prVars, evVars, fmVars, nmVars, mgVars, dvVars, rsVars, pbVars>>
SpecSocket == InitSocket /\ [][SocketNext]_vars

InitStore ==
    /\ rs = ReplayStoreNew
    /\ liveState = NoSnapshot /\ requestedT = 0 /\ replayView = <<>>
    /\ fw = FenwickNew(0) /\ fwElems = <<>>
    /\ seg = SegNew(<<>>) /\ segBits = <<>>
    /\ ta = buildTimelineAnalytics(<<>>)
    /\ sched = SchedulerNew("FCFS", DefaultQuantum)
    /\ wsSession = SessionNew /\ wsConns = [c \in Conns |-> ConnNew]
    /\ pgInput = [frames |-> 1, refs |-> <<>>] /\ pgResult = <<>>
    /\ prInput = <<>> /\ prResult = <<>>
    /\ evLog = <<>> /\ evResult = <<>>
    /\ form = FormNew /\ submitted = <<>>
    /\ nmInput = [rows |-> <<>>, direction |-> "low"] /\ nmResult = <<>>
    /\ mgInput = <<>> /\ mgResult = <<>>
    /\ dvLive = RunSnapshot(<<"P1">>, "NEW") /\ dvView = <<>>
    /\ sk = SimSocketNew /\ skSockets = <<>> /\ skSent = <<>>
    /\ pb = PlaybackNew(1, 16)

StoreNext ==
    (\/ \E mode \in ReplayModes : SetMode(mode)
     \/ \E time \in StoreTimes : SetReplayT(time)
     \/ \E max \in StoreTimes : SetReplayMax(max)
     \/ \E playing \in BOOLEAN : SetPlaying(playing)
     \/ \E rate \in PlaybackRates : SetPlaybackRate(rate)
     \/ \E delta \in StoreDeltas : StepReplay(delta)
     \/ \E time \in StoreTimes : JumpTo(time))
        /\ UNCHANGED <<replayVars, fenwickVars, segVars, taVars, schedVars, wsVars, pgVars, prVars, evVars, fmVars, nmVars, mgVars, dvVars, skVars, pbVars>>
SpecStore == InitStore /\ [][StoreNext]_vars

InitPlayback ==
    /\ \E liveMax \in 1..MaxLiveMax, tickMs \in TickMsValues :
           /\ rs = MountedStore(liveMax)
           /\ pb = PlaybackNew(liveMax, tickMs)
    /\ liveState = NoSnapshot /\ requestedT = 0 /\ replayView = <<>>
    /\ fw = FenwickNew(0) /\ fwElems = <<>>
    /\ seg = SegNew(<<>>) /\ segBits = <<>>
    /\ ta = buildTimelineAnalytics(<<>>)
    /\ sched = SchedulerNew("FCFS", DefaultQuantum)
    /\ wsSession = SessionNew /\ wsConns = [c \in Conns |-> ConnNew]
    /\ pgInput = [frames |-> 1, refs |-> <<>>] /\ pgResult = <<>>
    /\ prInput = <<>> /\ prResult = <<>>
    /\ evLog = <<>> /\ evResult = <<>>
    /\ form = FormNew /\ submitted = <<>>
    /\ nmInput = [rows |-> <<>>, direction |-> "low"] /\ nmResult = <<>>
    /\ mgInput = <<>> /\ mgResult = <<>>
    /\ dvLive = RunSnapshot(<<"P1">>, "NEW") /\ dvView = <<>>
    /\ sk = SimSocketNew /\ skSockets = <<>> /\ skSent = <<>>

PlaybackNext ==
    (\/ \E nextMode \in ReplayModes : HandleModeChange(nextMode)
     \/ \E t \in 0..pb.liveMax : OnScrub(t)
     \/ OnPlayPause
     \/ \E rate \in PlaybackRates : OnRateChange(rate)
     \/ RefSync
     \/ PlaybackEffect
     \/ \E dt \in FrameDts : Frame(dt))
        /\ UNCHANGED <<replayVars, fenwickVars, segVars, taVars, schedVars, wsVars, pgVars, prVars, evVars, fmVars, nmVars, mgVars, dvVars, skVars>>
SpecPlayback == InitPlayback /\ [][PlaybackNext]_vars

\* the rest of the state during playback
PlaybackRest == <<replayVars, fenwickVars, segVars, taVars, schedVars, wsVars, pgVars, prVars, evVars, fmVars, nmVars, mgVars, dvVars, skVars>>

\* animation frames keep firing and React runs the effects of every render
SpecPlaybackFair ==
    /\ SpecPlayback
    /\ WF_vars((\E dt \in FrameDts : Frame(dt)) /\ UNCHANGED PlaybackRest)
    /\ WF_vars(RefSync /\ UNCHANGED PlaybackRest)
    /\ WF_vars(PlaybackEffect /\ UNCHANGED PlaybackRest)

(***************************************************************************)
(* Properties                                                              *)
(***************************************************************************)
RECURSIVE SumSeq(_, _, _)
SumSeq(s, lo, hi) == IF lo > hi THEN 0 ELSE s[lo] + SumSeq(s, lo + 1, hi)

Prefix(s, k) == SubSeq(s, 1, Min2(k, Len(s)))

\* the tick the view stands for, as the claims define it
ClaimedReplayMax ==
    Max2(Max2(liveState.time, Len(liveState.gantt) - 1),
         Max2(Len(liveState.io_gantt) - 1, Len(liveState.mem_gantt) - 1))
ClaimedTick == Max2(0, Min2(requestedT \div Scale, ClaimedReplayMax))
TokenAt(timeline, t) == IF t < Len(timeline) THEN timeline[t + 1] ELSE "IDLE"

\* C1: the view's running pid is gantt[t'] and its io_active is io_gantt[t'] ("IDLE"
\* where the timeline has no entry), t' being the requested time floored and clamped
\* to [0, replayMax].
C1_ReplayRoundTrip ==
    replayView # <<>> =>
        /\ replayView[1].running = TokenAt(liveState.gantt, ClaimedTick)
        /\ replayView[1].io_active = TokenAt(liveState.io_gantt, ClaimedTick)

\* a view of a past tick, asked for at a fractional time, with both tokens busy
C1_Witness ==
    /\ replayView # <<>>
    /\ requestedT % Scale # 0
    /\ ClaimedTick < liveState.time - 1
    /\ replayView[1].running = "P2"
    /\ replayView[1].io_active = "P1"
    /\ liveState.running # "P2"

\* C2: the view's memory timeline (mem_gantt and memory.mem_gantt) holds only the
\* entries for ticks 0..t of the live memory timeline.
C2_MemTimelineTruncated ==
    replayView # <<>> =>
        LET t == replayView[1].time
            liveMem == IF Len(liveState.memory.mem_gantt) > 0
                       THEN liveState.memory.mem_gantt ELSE liveState.mem_gantt
        IN /\ replayView[1].mem_gantt = Prefix(liveState.mem_gantt, t + 1)
           /\ replayView[1].memory.mem_gantt = Prefix(liveMem, t + 1)

\* the view's event log without the prepended replay note
ViewLogBody ==
    IF replayView[1].time = liveState.time THEN replayView[1].event_log
    ELSE Tail(replayView[1].event_log)

TimedUpTo(t) == SelectSeq(liveState.event_log, LAMBDA e : e.timed /\ e.t <= t)

\* C3 as claimed: after the optional replay note, the view's event log is exactly the
\* live entries whose parsed time is <= t, in their original order.
C3_EventLogExactlyFiltered ==
    replayView # <<>> => ViewLogBody = TimedUpTo(replayView[1].time)

\* C3 as amended: after the optional replay note (present exactly when t differs from
\* the live time), the view's event log is the last 20 of the live entries whose
\* parsed time is <= t, in their original order; when no live entry carries a time it
\* is the last 20 live entries.
C3_EventLogTail ==
    replayView # <<>> =>
        LET t == replayView[1].time
            viewLog == replayView[1].event_log
            eligible == IF \E i \in DOMAIN liveState.event_log : liveState.event_log[i].timed
                        THEN TimedUpTo(t) ELSE liveState.event_log
        IN /\ (t # liveState.time) => (viewLog # <<>> /\ Head(viewLog) = QueueNote)
           /\ ViewLogBody =
                SubSeq(eligible, Max2(1, Len(eligible) - EVENT_LOG_TAIL + 1), Len(eligible))

\* a past tick with more than 20 eligible lines, some later lines filtered out
C3_Witness ==
    /\ replayView # <<>>
    /\ replayView[1].time < liveState.time
    /\ Len(TimedUpTo(replayView[1].time)) > EVENT_LOG_TAIL
    /\ Len(TimedUpTo(replayView[1].time)) < Len(liveState.event_log)
    /\ Len(ViewLogBody) = EVENT_LOG_TAIL

\* C4: rangeSum(l, r) is the sum of the current element values at positions l..r,
\* whatever constructor, append, add and set calls came before.
C4_FenwickRangeSum ==
    /\ fw.n = Len(fwElems)
    /\ \A l \in 0..(Len(fwElems) - 1) : \A r \in l..(Len(fwElems) - 1) :
          FenwickRangeSum(fw, l, r) = SumSeq(fwElems, l + 1, r + 1)

\* a tree built for 3 elements that doubled to capacity 6, with non-zero content
C4_Witness ==
    /\ fw.capacity = 2 * MaxFwInit
    /\ fw.n = MaxFwInit + 1
    /\ \A i \in 1..Len(fwElems) : fwElems[i] # 0
    /\ FenwickRangeSum(fw, 1, MaxFwInit) # 0

\* the longest run of bit b inside bits[l..r] (0-based, inclusive)
LongestRun(bits, l, r, b) ==
    LET fits(k) == \E a \in l..(r - k + 1) : \A i \in a..(a + k - 1) : bits[i + 1] = b
    IN CHOOSE k \in 0..(r - l + 1) : fits(k) /\ \A j \in (k + 1)..(r - l + 1) : ~fits(j)

\* C5: query(l, r).best1 and .best0 are the longest runs of 1s and of 0s in
\* bits[l..r], whatever construction, append and update calls came before.
C5_SegStreakLongestRun ==
    /\ seg.n = Len(segBits)
    /\ \A l \in 0..(Len(segBits) - 1) : \A r \in l..(Len(segBits) - 1) :
          /\ SegQuery(seg, l, r).best1 = LongestRun(segBits, l, r, 1)
          /\ SegQuery(seg, l, r).best0 = LongestRun(segBits, l, r, 0)

\* a tree enlarged by append, whose longest run of 1s crosses the middle
C5_Witness ==
    /\ seg.size > nextPowerOfTwo(MaxSegInit)
    /\ seg.n >= 5
    /\ segBits[1] = 0
    /\ segBits[seg.n] = 0
    /\ SegQuery(seg, 0, seg.n - 1).best1 >= 3

\* C6: after any sequence of sync calls, getRangeStats answers as a TimelineAnalytics
\* freshly built from the last gantt does.
C6_SyncMatchesFresh ==
    \A l \in RangeEnds : \A r \in RangeEnds :
        getRangeStats(ta, l, r) = getRangeStats(buildTimelineAnalytics(ta.gantt), l, r)

\* structures that were maintained incrementally and differ from a fresh build
C6_Witness ==
    /\ Len(ta.gantt) >= 3
    /\ ta # buildTimelineAnalytics(ta.gantt)
    /\ getRangeStats(ta, 0, Len(ta.gantt) - 1).longestBusyStreak >= 2
    /\ getRangeStats(ta, 0, Len(ta.gantt) - 1).idleTicks >= 1

Running == {p \in DOMAIN sched.procs : sched.procs[p].state = "RUNNING"}

\* waiting for I/O and not in the device's waiting list: being served
IoActive ==
    {p \in DOMAIN sched.procs :
        sched.procs[p].state = "WAITING_IO" /\ ~InSeq(sched.io_queue, p)}

S2Loaded ==
    /\ sched.algorithm = "RR"
    /\ sched.quantum = 2
    /\ DOMAIN sched.procs = Pids
    /\ sched.procs["P1"].arrival_time = 0 /\ sched.procs["P1"].bursts = <<5>>
    /\ sched.procs["P2"].arrival_time = 1 /\ sched.procs["P2"].bursts = <<3>>
    /\ sched.procs["P3"].arrival_time = 2 /\ sched.procs["P3"].bursts = <<1>>

S2Timeline == <<"P1", "P1", "P2", "P2", "P3", "P1", "P1", "P2", "P1">>

\* C8: under RR the process arriving at tick t goes ahead of the process whose
\* quantum expired at the end of tick t-1: S2 gives the CPU timeline
\* P1 P1 P2 P2 P3 P1 P1 P2 P1 and the completions P3@5, P2@8, P1@9.
C8_RRArrivalAheadOfExpired ==
    S2Loaded =>
        /\ \A i \in 1..Min2(Len(sched.gantt), Len(S2Timeline)) : sched.gantt[i] = S2Timeline[i]
        /\ sched.time >= Len(S2Timeline) =>
              /\ sched.procs["P3"].completion_time = 5
              /\ sched.procs["P2"].completion_time = 8
              /\ sched.procs["P1"].completion_time = 9

\* the processes that are READY just before event-log line k is written
ReadyBefore(k) ==
    {p \in DOMAIN sched.procs :
        \E j \in 1..(k - 1) :
            /\ sched.event_log[j].pid = p
            /\ sched.event_log[j].to = "READY"
            /\ \A m \in (j + 1)..(k - 1) : sched.event_log[m].pid # p}

\* C9: under RR with quantum q no dispatch holds the CPU timeline for more than q
\* consecutive ticks (q+1 consecutive ticks of one pid contain a fresh dispatch of
\* it), and a process whose quantum expires while another is ready does not get the
\* next tick.
C9_RRQuantumBound ==
    sched.algorithm = "RR" =>
        /\ \A i \in 1..(Len(sched.gantt) - sched.quantum) :
              (/\ sched.gantt[i] # "IDLE"
               /\ \A j \in i..(i + sched.quantum) : sched.gantt[j] = sched.gantt[i])
              => \E e \in DOMAIN sched.event_log :
                    /\ sched.event_log[e].pid = sched.gantt[i]
                    /\ sched.event_log[e].to = "RUNNING"
                    /\ sched.event_log[e].t \in i..(i + sched.quantum - 1)
        /\ \A k \in DOMAIN sched.event_log :
              LET e == sched.event_log[k]
              IN (/\ e.reason = "time slice"
                  /\ ReadyBefore(k) \ {e.pid} # {}
                  /\ e.t + 2 <= Len(sched.gantt))
                 => sched.gantt[e.t + 2] # e.pid

\* q = 2: a process used its whole quantum, was rotated while another was ready, and
\* the next tick has been recorded
C9_Witness ==
    /\ sched.algorithm = "RR"
    /\ sched.quantum = 2
    /\ \E k \in DOMAIN sched.event_log :
          LET e == sched.event_log[k]
          IN /\ e.reason = "time slice"
             /\ ReadyBefore(k) \ {e.pid} # {}
             /\ e.t + 2 <= Len(sched.gantt)
             /\ e.t >= 1
             /\ sched.gantt[e.t] = e.pid
             /\ sched.gantt[e.t + 1] = e.pid

\* event-log line k is the first dispatch of its process
FirstDispatch(k) ==
    /\ sched.event_log[k].to = "RUNNING"
    /\ \A j \in 1..(k - 1) :
          ~(sched.event_log[j].to = "RUNNING" /\ sched.event_log[j].pid = sched.event_log[k].pid)

S4Loaded ==
    /\ sched.algorithm = "FCFS"
    /\ DOMAIN sched.procs = {"P1", "P2"}
    /\ sched.procs["P1"].arrival_time = 0 /\ sched.procs["P1"].bursts = <<3, 2, 2>>
    /\ sched.procs["P2"].arrival_time = 0 /\ sched.procs["P2"].bursts = <<2>>

S4Cpu == <<"P1", "P1", "P1", "P2", "P2", "P1", "P1">>
S4Io == <<"IDLE", "IDLE", "IDLE", "P1", "P1", "IDLE", "IDLE">>

S4Timelines ==
    S4Loaded =>
        /\ \A i \in 1..Len(sched.gantt) :
              sched.gantt[i] = (IF i <= Len(S4Cpu) THEN S4Cpu[i] ELSE "IDLE")
        /\ \A i \in 1..Len(sched.io_gantt) :
              sched.io_gantt[i] = (IF i <= Len(S4Io) THEN S4Io[i] ELSE "IDLE")

\* event-log line k records a process going to the I/O device
ToIo(k) == sched.event_log[k].to = "WAITING_IO"

\* the length of the I/O burst that starts with event-log line k
IoBurstLen(k) ==
    LET pid == sched.event_log[k].pid
        nth == Cardinality({j \in 1..k : ToIo(j) /\ sched.event_log[j].pid = pid})
    IN sched.procs[pid].bursts[2 * nth]

\* the last recorded tick that belongs to the I/O burst of line k
IoWindowEnd(k) ==
    LET pid == sched.event_log[k].pid
        later == {sched.event_log[j].t : j \in {m \in DOMAIN sched.event_log :
                      m > k /\ ToIo(m) /\ sched.event_log[m].pid = pid}}
    IN IF later = {} THEN Len(sched.io_gantt) - 1
       ELSE CHOOSE t \in later : \A u \in later : t <= u

\* the ticks at which the I/O timeline shows the process of line k, for that burst
IoShown(k) ==
    {t \in (sched.event_log[k].t + 1)..IoWindowEnd(k) :
        sched.io_gantt[t + 1] = sched.event_log[k].pid}

Recorded(ticks) == {t \in ticks : t < Len(sched.io_gantt)}

\* no process is with the I/O device (served or waiting) when line k is written
DeviceFreeAt(k) ==
    \A j \in 1..(k - 1) :
        ToIo(j) => \E m \in (j + 1)..(k - 1) :
                      /\ sched.event_log[m].pid = sched.event_log[j].pid
                      /\ sched.event_log[m].from = "WAITING_IO"

C11_WitnessQueued ==
    \E k \in DOMAIN sched.event_log :
        /\ ToIo(k)
        /\ ~DeviceFreeAt(k)
        /\ Cardinality(IoShown(k)) = IoBurstLen(k)
        /\ \E m \in DOMAIN sched.event_log :
              m > k /\ sched.event_log[m].pid = sched.event_log[k].pid
                    /\ sched.event_log[m].from = "WAITING_IO"

\* scenario S6: P1(0,pr=5,[8]), P2(3,pr=1,[4]) under preemptive priority
S6Loaded ==
    /\ sched.algorithm = "PRIORITY_P"
    /\ DOMAIN sched.procs = {"P1", "P2"}
    /\ sched.procs["P1"].arrival_time = 0 /\ sched.procs["P1"].priority = 5
    /\ sched.procs["P1"].bursts = <<8>>
    /\ sched.procs["P2"].arrival_time = 3 /\ sched.procs["P2"].priority = 1
    /\ sched.procs["P2"].bursts = <<4>>

S6Cpu == <<"P1", "P1", "P1", "P2", "P2", "P2", "P2", "P1", "P1", "P1", "P1", "P1">>

Preempted(k) == sched.event_log[k].reason = "preempt"

C12_WitnessEqualPriority ==
    /\ sched.algorithm = "PRIORITY_P"
    /\ sched.current # None
    /\ \E q \in DOMAIN sched.procs :
          /\ sched.procs[q].state = "READY"
          /\ sched.procs[q].priority = sched.procs[sched.current].priority
          /\ sched.procs[q].arrival_time > sched.procs[sched.current].arrival_time
          /\ sched.procs[q].arrival_time < sched.time
    /\ \A k \in DOMAIN sched.event_log : ~Preempted(k)

\* the CPU bursts of a burst list are its odd positions
RECURSIVE CpuBurstSum(_, _)
CpuBurstSum(bursts, i) ==
    IF i > Len(bursts) THEN 0 ELSE bursts[i] + CpuBurstSum(bursts, i + 2)

RECURSIVE TotalCpuBursts(_)
TotalCpuBursts(pids) ==
    IF pids = {} THEN 0
    ELSE LET p == CHOOSE q \in pids : TRUE
         IN CpuBurstSum(sched.procs[p].bursts, 1) + TotalCpuBursts(pids \ {p})

BusyTicks == Cardinality({i \in DOMAIN sched.gantt : sched.gantt[i] # "IDLE"})

AllDone ==
    /\ DOMAIN sched.procs # {}
    /\ \A p \in DOMAIN sched.procs : sched.procs[p].state = "DONE"

\* C13: once every process is DONE the CPU timeline has as many non-IDLE entries as
\* the CPU bursts of all processes add up to, and each process as many entries as its
\* own CPU bursts add up to.
C13_BusyTicksEqualCpuBursts ==
    AllDone =>
        /\ BusyTicks = TotalCpuBursts(DOMAIN sched.procs)
        /\ \A p \in DOMAIN sched.procs :
              Cardinality({i \in DOMAIN sched.gantt : sched.gantt[i] = p})
                  = CpuBurstSum(sched.procs[p].bursts, 1)

\* three finished processes, one of them preempted and one back from I/O
C13_Witness ==
    /\ AllDone
    /\ DOMAIN sched.procs = Pids
    /\ \E k \in DOMAIN sched.event_log : Preempted(k)
    /\ \E k \in DOMAIN sched.event_log : sched.event_log[k].from = "WAITING_IO"

\* three finished processes under RR, one of them rotated and one back from I/O
C13_WitnessRotation ==
    /\ AllDone
    /\ DOMAIN sched.procs = Pids
    /\ \E k \in DOMAIN sched.event_log : sched.event_log[k].reason = "time slice"
    /\ \E k \in DOMAIN sched.event_log : sched.event_log[k].from = "WAITING_IO"

\* websocket c takes an inbound message in this step
Takes(c) == wsConns'[c].received = wsConns[c].received + 1

PgRan(algo) == pgResult # <<>> /\ pgResult[1] = algo
PgSteps == pgResult[2].steps
PgRef(i) == Max2(0, pgInput.refs[i])
PgFrameCount == IF pgInput.frames < 1 THEN 1 ELSE pgInput.frames

\* frames before step i (steps are numbered from 1 here)
FramesBefore(i) == IF i = 1 THEN [k \in 1..PgFrameCount |-> Null] ELSE PgSteps[i - 1].frames
Resident(i) == {FramesBefore(i)[k] : k \in DOMAIN FramesBefore(i)} \ {Null}

\* step i is a fault that finds every frame occupied
FullFault(i) == PgRef(i) \notin Resident(i) /\ Cardinality(Resident(i)) = PgFrameCount

SetMax(S) == CHOOSE x \in S : \A y \in S : y <= x
SetMin(S) == CHOOSE x \in S : \A y \in S : x <= y

\* for a page resident before step i: its last reference, the reference that loaded
\* it, its references since then, and its next reference (beyond the end if none)
LastRefOf(page, i) == SetMax({j \in 1..(i - 1) : PgRef(j) = page})
LoadedAt(page, i) == SetMax({j \in 1..(i - 1) : PgRef(j) = page /\ page \notin Resident(j)})
CountSinceLoad(page, i) ==
    Cardinality({j \in LoadedAt(page, i)..(i - 1) : PgRef(j) = page})
NextRefOf(page, i) ==
    LET later == {j \in (i + 1)..Len(pgInput.refs) : PgRef(j) = page}
    IN IF later = {} THEN Len(pgInput.refs) + 1 ELSE SetMin(later)

\* every reference has its step, a full fault evicts a resident page and puts the
\* referenced page in its frame, and no other step evicts
EvictsResident ==
    /\ ~pgResult[2].error
    /\ Len(PgSteps) = Len(pgInput.refs)
    /\ \A i \in DOMAIN PgSteps :
          /\ PgSteps[i].ref = PgRef(i)
          /\ PgSteps[i].hit = (PgRef(i) \in Resident(i))
          /\ IF FullFault(i)
             THEN /\ PgSteps[i].evicted \in Resident(i)
                  /\ PgSteps[i].frames =
                        [k \in DOMAIN FramesBefore(i) |->
                            IF FramesBefore(i)[k] = PgSteps[i].evicted THEN PgRef(i)
                            ELSE FramesBefore(i)[k]]
             ELSE PgSteps[i].evicted = Null

\* C15: on a fault with all frames occupied runLRU evicts the resident page whose
\* most recent reference is the oldest; with 2 frames and references 0,1,2 every
\* reference faults and the third evicts page 0.
C15_LruEvictsLeastRecent ==
    PgRan("LRU") =>
        /\ EvictsResident
        /\ \A i \in DOMAIN PgSteps :
              FullFault(i) =>
                  \A q \in Resident(i) \ {PgSteps[i].evicted} :
                      LastRefOf(PgSteps[i].evicted, i) < LastRefOf(q, i)
        /\ (pgInput.frames = 2 /\ pgInput.refs = <<0, 1, 2>>) =>
              /\ \A i \in 1..3 : ~PgSteps[i].hit
              /\ PgSteps[3].evicted = 0
              /\ pgResult[2].faults = 3

\* runLRU evicted a page that was loaded after another resident page
C15_Witness ==
    /\ PgRan("LRU")
    /\ \E i \in DOMAIN PgSteps :
          /\ FullFault(i)
          /\ \E q \in Resident(i) : LoadedAt(q, i) < LoadedAt(PgSteps[i].evicted, i)

\* C16: on a fault with all frames occupied runLFU evicts the resident page with the
\* fewest references since it was loaded, and among the pages with that count the one
\* whose last reference is the oldest.
C16_LfuEvictsLeastFrequent ==
    PgRan("LFU") =>
        /\ EvictsResident
        /\ \A i \in DOMAIN PgSteps :
              FullFault(i) =>
                  LET v == PgSteps[i].evicted
                  IN \A q \in Resident(i) \ {v} :
                        \/ CountSinceLoad(v, i) < CountSinceLoad(q, i)
                        \/ /\ CountSinceLoad(v, i) = CountSinceLoad(q, i)
                           /\ LastRefOf(v, i) < LastRefOf(q, i)

\* runLFU evicted a page although another resident page was referenced longer ago
C16_Witness ==
    /\ PgRan("LFU")
    /\ \E i \in DOMAIN PgSteps :
          /\ FullFault(i)
          /\ \E q \in Resident(i) : LastRefOf(q, i) < LastRefOf(PgSteps[i].evicted, i)

\* runLFU evicted, of two pages with equal counts, the one loaded later
C16_WitnessTie ==
    /\ PgRan("LFU")
    /\ \E i \in DOMAIN PgSteps :
          /\ FullFault(i)
          /\ \E q \in Resident(i) \ {PgSteps[i].evicted} :
                /\ CountSinceLoad(q, i) = CountSinceLoad(PgSteps[i].evicted, i)
                /\ LoadedAt(q, i) < LoadedAt(PgSteps[i].evicted, i)

\* C17: on a fault with all frames occupied runFIFO evicts the resident page that
\* was loaded earliest, whatever hits it had since.
C17_FifoEvictsEarliestLoaded ==
    PgRan("FIFO") =>
        /\ EvictsResident
        /\ \A i \in DOMAIN PgSteps :
              FullFault(i) =>
                  \A q \in Resident(i) \ {PgSteps[i].evicted} :
                      LoadedAt(PgSteps[i].evicted, i) < LoadedAt(q, i)

\* runFIFO evicted a page that was hit after every other resident page's last
\* reference, in a run with a second eviction
C17_Witness ==
    /\ PgRan("FIFO")
    /\ \E i \in DOMAIN PgSteps :
          /\ FullFault(i)
          /\ \A q \in Resident(i) \ {PgSteps[i].evicted} :
                LastRefOf(q, i) < LastRefOf(PgSteps[i].evicted, i)
          /\ \E j \in (i + 1)..Len(PgSteps) : FullFault(j)

\* C18: on a fault with all frames occupied runOPT evicts the resident page whose
\* next reference is farthest ahead, and a page that is never referenced again
\* whenever one is resident.
C18_OptEvictsFarthestNextUse ==
    PgRan("OPT") =>
        /\ EvictsResident
        /\ \A i \in DOMAIN PgSteps :
              FullFault(i) =>
                  /\ \A q \in Resident(i) :
                        NextRefOf(q, i) <= NextRefOf(PgSteps[i].evicted, i)
                  /\ (\E q \in Resident(i) : NextRefOf(q, i) > Len(pgInput.refs)) =>
                        NextRefOf(PgSteps[i].evicted, i) > Len(pgInput.refs)

\* runOPT evicted the page of the last frame, every resident page being referenced
\* again
C18_Witness ==
    /\ PgRan("OPT")
    /\ \E i \in DOMAIN PgSteps :
          /\ FullFault(i)
          /\ PgFrameCount >= 2
          /\ FramesBefore(i)[PgFrameCount] = PgSteps[i].evicted
          /\ \A q \in Resident(i) : NextRefOf(q, i) <= Len(pgInput.refs)

\* row a dominates row b, comparing the values as they are
DominatesExactly(a, b) ==
    /\ a[1] <= b[1] /\ a[2] >= b[2]
    /\ a[1] < b[1] \/ a[2] > b[2]

\* row a dominates row b up to the tolerance: nowhere worse by more than EPS, and
\* somewhere better by more than EPS
DominatesWithin(a, b) ==
    /\ a[1] <= b[1] + EPS /\ a[2] >= b[2] - EPS
    /\ a[1] < b[1] - EPS \/ a[2] > b[2] + EPS

\* the rows at the positions in keep, in their order
RECURSIVE Kept(_, _, _)
Kept(rows, keep, i) ==
    IF i = 0 THEN <<>>
    ELSE IF i \in keep THEN Append(Kept(rows, keep, i - 1), rows[i])
    ELSE Kept(rows, keep, i - 1)

\* C19 as claimed: paretoFront returns, in their order, exactly the rows that no
\* other row dominates, a dominating b when a is no worse on every objective and
\* strictly better on one.
C19_FrontIsUndominatedExactly ==
    prResult # <<>> =>
        prResult[1] = Kept(prInput,
                           {i \in DOMAIN prInput :
                               ~\E j \in DOMAIN prInput \ {i} :
                                   DominatesExactly(prInput[j], prInput[i])},
                           Len(prInput))

\* C19 as amended: the same with dominance taken up to the tolerance EPS: a
\* dominates b when a is on no objective worse than b by more than EPS and on some
\* objective better than b by more than EPS.
C19_FrontIsUndominatedWithinEps ==
    prResult # <<>> =>
        prResult[1] = Kept(prInput,
                           {i \in DOMAIN prInput :
                               ~\E j \in DOMAIN prInput \ {i} :
                                   DominatesWithin(prInput[j], prInput[i])},
                           Len(prInput))

\* three rows, one of them left out, one kept although another row is better than it
\* by less than EPS
C19_Witness ==
    /\ prResult # <<>>
    /\ Len(prInput) = 3
    /\ Len(prResult[1]) = 2
    /\ \E i \in DOMAIN prInput : \E j \in DOMAIN prInput \ {i} :
          /\ DominatesExactly(prInput[j], prInput[i])
          /\ ~DominatesWithin(prInput[j], prInput[i])
          /\ \E k \in DOMAIN prResult[1] : prResult[1][k] = prInput[i]

\* the event parseSimTransition ought to return for a logged transition
EventOf(tr) ==
    [t |-> tr.t, pid |-> Chars(tr.pid), from |-> Chars(tr.from), to |-> Chars(tr.to)]

\* the fields of a SimEvent other than the reason
Core(ev) == [t |-> ev.t, pid |-> ev.pid, from |-> ev.from, to |-> ev.to]

\* C20: parseSimEvents drops no line of the eight transitions and returns each
\* line's t, pid, from-state and to-state.
C20_EveryTransitionParsed ==
    evResult # <<>> =>
        /\ Len(evResult[2]) = Len(evLog) - evResult[1]
        /\ \A k \in DOMAIN evResult[2] :
              Core(evResult[2][k]) = EventOf(evLog[k + evResult[1]])

\* a transition whose states are both among NEW, READY, RUNNING and DONE
PlainStates(tr) ==
    {tr.from, tr.to} \subseteq {"NEW", "READY", "RUNNING", "DONE"}

\* What the code does keep: a line between NEW, READY, RUNNING and DONE is parsed
\* to its t, pid, from-state and to-state; a line into WAITING_IO or WAITING_MEM is
\* parsed with to-state WAITING; a line out of WAITING_IO or WAITING_MEM is dropped.
C20_ParsedUpToWaiting ==
    evResult # <<>> =>
        LET kept == SelectSeq(SubSeq(evLog, evResult[1] + 1, Len(evLog)),
                              LAMBDA tr : tr.from \notin {"WAITING_IO", "WAITING_MEM"})
        IN /\ Len(evResult[2]) = Len(kept)
           /\ \A k \in DOMAIN kept :
                 Core(evResult[2][k]) =
                     IF PlainStates(kept[k]) THEN EventOf(kept[k])
                     ELSE [EventOf(kept[k]) EXCEPT !.to = Chars("WAITING")]

\* a two-line log at a two-digit tick, parsed from its start, with a line that has
\* a reason
C20_Witness ==
    /\ evResult # <<>>
    /\ evResult[1] = 0
    /\ Len(evLog) = 2
    /\ Len(evResult[2]) = 2
    /\ evLog[1].t = MaxLogT
    /\ evLog[1].reason = "time slice"
    /\ evResult[2][1].reason = Chars("TIMESLICE")

\* C21: no burst list handed to onSubmitProcess is empty, of even length or holds a
\* non-positive value, and a submit with such a list sets the error and hands
\* nothing over.
C21_NoInvalidBurstsSubmitted ==
    /\ [](\A k \in DOMAIN submitted :
             /\ Len(submitted[k]) > 0
             /\ Len(submitted[k]) % 2 = 1
             /\ \A i \in DOMAIN submitted[k] : submitted[k][i] > 0)
    /\ [][ ( /\ form'.submitCalls = form.submitCalls + 1
             /\ form.pid \notin ExistingPids \cup {""}
             /\ \/ Len(form.bursts) % 2 = 0
                \/ \E i \in DOMAIN form.bursts : form.bursts[i] <= 0 )
           => ( /\ form'.formError # ""
                /\ submitted' = submitted
                /\ form'.bursts = form.bursts ) ]_vars

\* submit was called on an even-length list and on a list with a negative value,
\* after a removal and an edit, and once handed a list over
C21_Witness ==
    /\ form.submitCalls = MaxSubmits
    /\ form.formError = "Bursts must be positive integers and end with CPU burst."
    /\ \/ Len(form.bursts) = 2
       \/ \E i \in DOMAIN form.bursts : form.bursts[i] < 0
    /\ submitted # <<>>

\* the returned value is 0.5: the quotient 1/2, or the sigmoid of 0
IsHalf(r) ==
    /\ r.den # 0
    /\ IF r.f = "id" THEN 2 * r.num = r.den ELSE r.num = 0

\* the values scoreAlgorithms hands to robustNormalizeMetric
CohortValues == [i \in DOMAIN nmInput.rows |-> getMetric(nmInput.rows[i]).v]

\* C22: when all values of the cohort are equal, robustNormalizeMetric returns 0.5
\* for every element, in both directions and for every cohort size.
C22_EqualInputsGiveHalf ==
    (nmResult # <<>> /\ \A i, j \in DOMAIN CohortValues : CohortValues[i] = CohortValues[j])
        => /\ Len(nmResult[1]) = Len(nmInput.rows)
           /\ \A i \in DOMAIN nmResult[1] : IsHalf(nmResult[1][i])

\* a cohort of MaxCohort equal values above 0 has been normalized for "high"
C22_Witness ==
    /\ nmResult # <<>>
    /\ Len(nmInput.rows) = MaxCohort
    /\ nmInput.direction = "high"
    /\ \A i \in DOMAIN CohortValues : CohortValues[i] = CohortValues[1] /\ CohortValues[i] > 0
    /\ \A i \in DOMAIN nmResult[1] : IsHalf(nmResult[1][i])

\* a cohort with an interquartile range above the tolerance went through the sigmoid
C22_WitnessRobust ==
    /\ nmResult # <<>>
    /\ \E i \in DOMAIN nmResult[1] : nmResult[1][i].f = "sigmoid" /\ ~IsHalf(nmResult[1][i])

\* the pages in the frames, and whether no page is in two of them
PagesIn(frames) == {frames[k] : k \in DOMAIN frames} \ {Null}
OnePagePerFrame(frames) ==
    \A k, l \in DOMAIN frames : (k # l /\ frames[k] # Null) => frames[k] # frames[l]

\* runLRU and runLFU after the first k references
LruAfter(k) == LruRun(LruNew(pgInput.frames), SubSeq(pgInput.refs, 1, k), 0)
LfuAfter(k) == LfuRun(LfuNew(pgInput.frames), SubSeq(pgInput.refs, 1, k), 0)

\* the node list and node map of runLRU hold exactly the pages in the frames
LruBookkeeping(st) ==
    /\ st.nodeMap = PagesIn(st.frames)
    /\ {st.list[k] : k \in DOMAIN st.list} = PagesIn(st.frames)
    /\ Len(st.list) = Cardinality(PagesIn(st.frames))

\* pageToNode of runLFU holds exactly the pages in the frames, each of them once in
\* the bucket of its count and in no other
LfuBookkeeping(st) ==
    /\ DOMAIN st.pageToNode = PagesIn(st.frames)
    /\ \A f \in DOMAIN st.buckets :
          /\ \A k \in DOMAIN st.buckets[f] :
                /\ st.buckets[f][k] \in DOMAIN st.pageToNode
                /\ st.pageToNode[st.buckets[f][k]] = f
          /\ \A k, l \in DOMAIN st.buckets[f] : k # l => st.buckets[f][k] # st.buckets[f][l]
    /\ \A page \in DOMAIN st.pageToNode :
          /\ st.pageToNode[page] \in DOMAIN st.buckets
          /\ InSeq(st.buckets[st.pageToNode[page]], page)

\* C23: at every step of runFIFO, runLRU, runLFU and runOPT no page is in more than
\* one frame, the referenced page is in a frame, and the bookkeeping of runLRU
\* (node map, list) and of runLFU (pageToNode, buckets) holds exactly the pages in
\* the frames.
C23_OnePagePerFrame ==
    pgResult # <<>> =>
        /\ \A i \in DOMAIN PgSteps :
              /\ OnePagePerFrame(PgSteps[i].frames)
              /\ PgSteps[i].ref \in PagesIn(PgSteps[i].frames)
        /\ PgRan("LRU") =>
              \A k \in 0..Len(pgInput.refs) :
                  /\ LruBookkeeping(LruAfter(k))
                  /\ k > 0 => LruAfter(k).frames = PgSteps[k].frames
        /\ PgRan("LFU") =>
              \A k \in 0..Len(pgInput.refs) :
                  /\ LfuBookkeeping(LfuAfter(k))
                  /\ k > 0 => LfuAfter(k).frames = PgSteps[k].frames

\* runLFU replaced a page in the second frame while the first still held its page
C23_Witness ==
    /\ PgRan("LFU")
    /\ PgFrameCount = 2
    /\ \E i \in DOMAIN PgSteps :
          /\ FullFault(i)
          /\ PgSteps[i].frames[2] = PgRef(i)
          /\ PgSteps[i].frames[1] = FramesBefore(i)[1]

\* the state of runLFU has resident pages, minFreq is the smallest of their
\* counts and the bucket of minFreq holds a page
MinFreqIsSmallestCount(st) ==
    /\ DOMAIN st.pageToNode # {}
    /\ st.minFreq = SetMin({st.pageToNode[page] : page \in DOMAIN st.pageToNode})
    /\ st.minFreq \in DOMAIN st.buckets
    /\ st.buckets[st.minFreq] # <<>>

\* C29: runLFU never ends with "LFU invariant broken: missing victim": before every
\* reference that evicts, minFreq is the smallest count among the resident pages
\* and its bucket holds a page.
C29_LfuVictimExists ==
    PgRan("LFU") =>
        /\ ~pgResult[2].error
        /\ Len(PgSteps) = Len(pgInput.refs)
        /\ \A i \in DOMAIN PgSteps :
              FullFault(i) => MinFreqIsSmallestCount(LfuAfter(i - 1))

\* runLFU evicted after a hit had emptied the bucket of count 1 and raised minFreq
C29_Witness ==
    /\ PgRan("LFU")
    /\ \E i \in DOMAIN PgSteps :
          /\ FullFault(i)
          /\ LfuAfter(i - 1).minFreq > 1

\* the faults runOPT counts on the input
OptFaults == runOPT(pgInput.frames, pgInput.refs).faults

\* C30: on the same frame count and reference string runOPT counts no more faults
\* than runFIFO, runLRU and runLFU.
C30_OptHasFewestFaults ==
    /\ pgResult # <<>> => OptFaults <= pgResult[2].faults
    /\ PgRan("OPT") =>
          /\ pgResult[2].faults = OptFaults
          /\ OptFaults <= runFIFO(pgInput.frames, pgInput.refs).faults
          /\ OptFaults <= runLRU(pgInput.frames, pgInput.refs).faults
          /\ OptFaults <= runLFU(pgInput.frames, pgInput.refs).faults

\* runOPT ran on an input on which each of the other three counts more faults
C30_Witness ==
    /\ PgRan("OPT")
    /\ pgResult[2].faults > PgFrameCount
    /\ pgResult[2].faults < runFIFO(pgInput.frames, pgInput.refs).faults
    /\ pgResult[2].faults < runLRU(pgInput.frames, pgInput.refs).faults
    /\ pgResult[2].faults < runLFU(pgInput.frames, pgInput.refs).faults

\* C24 as claimed: mergeSegNodes(a, b) equals mergeSegNodes(b, a).
C24_MergeCommutative ==
    mgResult # <<>> => mgResult[1].ab = mgResult[1].ba

\* C24 as amended: mergeSegNodes is associative, and mergeSegNodes(a, b) is the node
\* of a's window followed by b's: its length is the sum and its best1 and best0 are
\* the longest runs of 1s and of 0s of the joined window.
C24_MergeAssociative ==
    mgResult # <<>> =>
        LET joined == mgInput[1] \o mgInput[2]
        IN /\ mgResult[1].ab_c = mgResult[1].a_bc
           /\ mgResult[1].ab.len = Len(joined)
           /\ mgResult[1].ab.best1 = LongestRun(joined, 0, Len(joined) - 1, 1)
           /\ mgResult[1].ab.best0 = LongestRun(joined, 0, Len(joined) - 1, 0)
           /\ mgResult[1].ba.best1 =
                 LongestRun(mgInput[2] \o mgInput[1], 0, Len(joined) - 1, 1)

\* two windows of full length were merged whose nodes differ with the order, the
\* run of 1s crossing the boundary in one order only
C24_Witness ==
    /\ mgResult # <<>>
    /\ Len(mgInput[1]) = MaxMergeBits
    /\ Len(mgInput[2]) = MaxMergeBits
    /\ mgResult[1].ab # mgResult[1].ba
    /\ mgResult[1].ab.best1 > mgResult[1].ba.best1


(***************************************************************************)
(* Properties of the derived process states                                *)
(***************************************************************************)
RunningPids(states) == {pid \in DOMAIN states : states[pid] = "RUNNING"}

\* the live snapshot is one of a valid run: exactly one process row is RUNNING
\* and it is the row of state.running
ValidRun(state) ==
    \E i \in DOMAIN state.processes :
        /\ state.processes[i].state = "RUNNING"
        /\ state.processes[i].pid = state.running
        /\ \A j \in DOMAIN state.processes :
               state.processes[j].state = "RUNNING" => j = i

\* C25: in every replay view of a snapshot of a valid run, deriveProcessStates
\* gives RUNNING to at most one pid, the pid that runs at the replayed tick
C25_ReplayOneRunning ==
    (dvView # <<>> /\ dvView[1].replay /\ ValidRun(dvLive))
        => RunningPids(dvView[1].states) \subseteq {dvView[1].running}

\* C25, the same on the live snapshot itself, where it holds
C25_LiveOneRunning ==
    (dvView # <<>> /\ ~dvView[1].replay /\ ValidRun(dvLive))
        => RunningPids(dvView[1].states) = {dvView[1].running}

\* a replay view of an earlier tick has been derived
C25_Witness ==
    /\ dvView # <<>> /\ dvView[1].replay /\ ValidRun(dvLive)
    /\ dvView[1].time < dvLive.time
    /\ dvView[1].running \notin {dvLive.running, "IDLE"}


(***************************************************************************)
(* Properties of the client socket                                          *)
(***************************************************************************)
Live(socket) == skSockets[socket].readyState \in {"CONNECTING", "OPEN"}

\* C26: the instance tracks the socket it created last: while that socket is
\* connecting or open, ws is that socket, whatever events of earlier sockets
\* arrive in between
C26_TracksNewestSocket ==
    (Len(skSockets) > 0 /\ Live(Len(skSockets))) => sk.ws = Len(skSockets)

\* C26, the consequence for connect(): never two sockets connecting or open
C26_OneLiveSocket ==
    \A a, b \in DOMAIN skSockets : (Live(a) /\ Live(b)) => a = b

\* close(), connect(), and the close event of the first socket arrived while
\* the second socket is connecting or open
C26_Witness ==
    /\ Len(skSockets) >= 2
    /\ skSockets[1] = [readyState |-> "CLOSED", closeDue |-> FALSE]
    /\ Live(2)


(***************************************************************************)
(* Properties of the replay store                                           *)
(***************************************************************************)
\* C28: after any sequence of store calls with finite arguments,
\* 0 <= replayT <= replayMax
C28_ReplayTWithinRange == 0 <= rs.replayT /\ rs.replayT <= rs.replayMax

\* the store is playing in replay mode with the cursor strictly inside the range
C28_Witness ==
    /\ rs.replayMax >= 2
    /\ rs.replayT > 0 /\ rs.replayT < rs.replayMax
    /\ rs.mode = "replay" /\ rs.isPlaying

\* the cursor was clamped at the end of the range
C28_WitnessAtMax == rs.replayMax = MaxReplayMax /\ rs.replayT = rs.replayMax


(***************************************************************************)
(* Properties of replay playback                                            *)
(***************************************************************************)
\* C27: once playback runs in replay mode with replayT < replayMax, and
\* animation frames keep firing, the cursor reaches replayMax and isPlaying
\* becomes false
C27_PlaybackReachesEnd ==
    (rs.mode = "replay" /\ rs.isPlaying /\ rs.replayT < rs.replayMax)
        ~> (rs.replayT = rs.replayMax /\ ~rs.isPlaying)

\* a frame has just moved the cursor to the end of a range of several ticks
\* and stopped playback; the effect has not yet seen it
C27_Witness ==
    /\ rs.mode = "replay" /\ ~rs.isPlaying /\ pb.effectPending
    /\ rs.replayT = rs.replayMax /\ rs.replayMax >= 2
    /\ pb.replayTRef < rs.replayT
    /\ ~pb.raf /\ pb.lastTs

\* no frame is requested while a playback effect is pending
FrameAfterEffect == ~(pb.raf /\ pb.effectPending /\ rs.isPlaying)

====
